---- MODULE Spec2Model ----
(***************************************************************************)
(* Dialogue timing controller of the audio display                         *)
(* (src/src/audio_timing_dialogue.cpp).                                    *)
(*                                                                         *)
(* Every handler of AudioTimingControllerDialogue is an operator that maps *)
(* a controller state (a record holding the fields of the object and of    *)
(* the collaborators it writes to) to the SET of states the handler can    *)
(* end in: handlers call one another as in the source, and the set has     *)
(* more than one element only where the C++ leaves the outcome open        *)
(* (std::sort of equal positions, a binary search over an unsorted range,  *)
(* Apply() through a pointer to a destroyed TimeableLine).                 *)
(***************************************************************************)
EXTENDS Integers, Sequences, FiniteSets, TLC

VARIABLES
    events,          \* context->ass->Events: <<[Start, End], ...>>, a line is its index
    sel_active,      \* selectionController->GetActiveLine(), NoLine when none
    sel_set,         \* selectionController->GetSelectedSet()
    active_line,     \* TimeableLine active_line
    selected_lines,  \* std::list<TimeableLine> selected_lines
    markers,         \* std::vector<DialogueTimingMarker*> markers
    modified_lines,  \* std::set<TimeableLine*> modified_lines
    commit_id,       \* int commit_id
    clicked_ms,      \* int clicked_ms
    commit_blocked,  \* commit_connection is blocked
    auto_commit,     \* option Audio/Auto/Commit
    keyframes,       \* positions of keyframes_provider's markers
    video_position,  \* positions of video_position_provider's marker (none or one)
    undo,            \* the document's undo stack: <<[id, amend], ...>>
    dragged,         \* markers held by the display's AudioMarkerInteractionObject
    op,              \* the handler that ran last, with its arguments
    notified,        \* notifications the last handler emitted, in order
    commits,         \* commits the last handler issued to the document, in order
    listened,        \* OnFileChanged ran during the last handler
    reverted,        \* Revert ran during the last handler
    snapped,         \* value returned by SnapMarkers in the last handler
    nops,            \* number of handlers run so far
    display,         \* the AudioDisplay: viewport and interaction state
    option,          \* an agi::OptionValue: name, type, value, default value
    budget           \* number of handlers the behaviour may run

vars == <<events, sel_active, sel_set, active_line, selected_lines, markers,
          modified_lines, commit_id, clicked_ms, commit_blocked, auto_commit,
          keyframes, video_position, undo, dragged, op, notified, commits,
          listened, reverted, snapped, nops, display, option, budget>>

----------------------------------------------------------------------------
(* Bounds of the exploration *)

MaxOps == 3          \* handlers run in one behaviour
MaxLines == 3        \* subtitle lines the document may grow to

(* Program constants *)

INT_MIN == -2147483647 - 1
INT_MAX == 2147483647
NoLine == 0                  \* nullptr AssDialogue
COMMIT_DIAG_ADDREM == "COMMIT_DIAG_ADDREM"   \* a commit type is the set of its flags
COMMIT_DIAG_TIME == "COMMIT_DIAG_TIME"
COMMIT_DIAG_TEXT == "COMMIT_DIAG_TEXT"
LeadIn == 200                \* option Audio/Lead/IN
LeadOut == 300               \* option Audio/Lead/OUT
DefaultDuration == 2000      \* option Timing/Default Duration

----------------------------------------------------------------------------
(* Generic helpers *)

tabs(x) == IF x < 0 THEN -x ELSE x
Min2(a, b) == IF a < b THEN a ELSE b
Max2(a, b) == IF a > b THEN a ELSE b

Bind(S, F(_)) == UNION {F(x) : x \in S}

RECURSIVE FoldSeq(_, _, _)
FoldSeq(F(_, _), acc, s) ==
    IF s = <<>> THEN acc ELSE FoldSeq(F, F(acc, Head(s)), Tail(s))

RECURSIVE SetToSeq(_)
\* the elements of a finite set of integers in increasing order
SetToSeq(S) ==
    IF S = {} THEN <<>>
    ELSE LET x == CHOOSE y \in S : \A z \in S : y <= z
         IN <<x>> \o SetToSeq(S \ {x})

SeqRange(s) == {s[i] : i \in 1..Len(s)}

----------------------------------------------------------------------------
(* TimeRange: half-open [begin, end) *)

TimeRange(b, e) == [begin |-> b, end |-> e]
Contains(range, ms) == ms >= range.begin /\ ms < range.end

----------------------------------------------------------------------------
(* DialogueTimingMarker and TimeableLine *)

Feet_Left == "Feet_Left"
Feet_Right == "Feet_Right"

DialogueTimingMarker(position, style, feet) ==
    [position |-> position, style |-> style, feet |-> feet]

\* TimeableLine::TimeableLine: both markers at 0, no line tracked
TimeableLine(style_left, style_right) ==
    [line |-> NoLine,
     marker1 |-> DialogueTimingMarker(0, style_left, Feet_Right),
     marker2 |-> DialogueTimingMarker(0, style_right, Feet_Left),
     left_marker |-> 1,
     right_marker |-> 2]

\* physical marker k (1 = marker1, 2 = marker2) of a TimeableLine
MarkerOf(t, k) == IF k = 1 THEN t.marker1 ELSE t.marker2

GetLeftMarker(t) == MarkerOf(t, t.left_marker)
GetRightMarker(t) == MarkerOf(t, t.right_marker)

\* a SwapStyles that exchanges the styles and forgets the feet
SwapStylesOnly(t) ==
    [t EXCEPT !.marker1.style = t.marker2.style,
              !.marker2.style = t.marker1.style]

\* DialogueTimingMarker::SwapStyles applied to marker1 and marker2
SwapStyles(t) ==
    [t EXCEPT !.marker1.style = t.marker2.style,
              !.marker1.feet = t.marker2.feet,
              !.marker2.style = t.marker1.style,
              !.marker2.feet = t.marker1.feet]

\* a CheckMarkers that leaves the indirections alone
CheckMarkersNoSwap(t) == t

CheckMarkers(t) ==
    IF GetRightMarker(t).position < GetLeftMarker(t).position
    THEN [SwapStyles(t) EXCEPT !.left_marker = t.right_marker,
                               !.right_marker = t.left_marker]
    ELSE t

\* DialogueTimingMarker::SetPosition on physical marker k of line t
SetPosition(t, k, new_position) ==
    CheckMarkers(IF k = 1 THEN [t EXCEPT !.marker1.position = new_position]
                          ELSE [t EXCEPT !.marker2.position = new_position])

\* a SetLine that resets the markers whatever the line's end is
SetLineAlways(t, new_line, ev) ==
    <<SetPosition(SetPosition([t EXCEPT !.line = new_line], 1, ev[new_line].Start),
                  2, ev[new_line].End),
      TRUE>>

\* TimeableLine::SetLine: <<the line afterwards, the value returned>>
SetLine(t, new_line, ev) ==
    IF t.line = NoLine \/ ev[new_line].End > 0
    THEN <<SetPosition(SetPosition([t EXCEPT !.line = new_line], 1, ev[new_line].Start),
                       2, ev[new_line].End),
           TRUE>>
    ELSE <<[t EXCEPT !.line = new_line], FALSE>>

\* TimeableLine::ContainsMarker
ContainsMarker(t, range) ==
    Contains(range, t.marker1.position) \/ Contains(range, t.marker2.position)

\* TimeableLine::Apply: the document's events afterwards
Apply(t, ev) ==
    IF t.line # NoLine
    THEN [ev EXCEPT ![t.line] = [Start |-> GetLeftMarker(t).position,
                                 End |-> GetRightMarker(t).position]]
    ELSE ev

----------------------------------------------------------------------------
(* The controller state a handler works on.  A marker is <<i, k>>: physical *)
(* marker k of TimeableLine i, where 0 is active_line and i > 0 is          *)
(* selected_lines[i].                                                       *)

TLof(c, i) == IF i = 0 THEN c.active_line ELSE c.selected_lines[i]

SetTL(c, i, t) ==
    IF i = 0 THEN [c EXCEPT !.active_line = t]
             ELSE [c EXCEPT !.selected_lines[i] = t]

\* DialogueTimingMarker::GetPosition / operator int
Position(c, m) == MarkerOf(TLof(c, m[1]), m[2]).position

\* marker->SetPosition(p), which reaches the owning line's CheckMarkers
MarkerSetPosition(c, m, p) == SetTL(c, m[1], SetPosition(TLof(c, m[1]), m[2], p))

\* TimeableLine::GetMarkers: left_marker, then right_marker
GetMarkersOf(i, t) == << <<i, t.left_marker>>, <<i, t.right_marker>> >>

\* markers of active_line followed by those of every selected line
RECURSIVE SelectedMarkers(_, _)
SelectedMarkers(c, i) ==
    IF i > Len(c.selected_lines) THEN <<>>
    ELSE GetMarkersOf(i, c.selected_lines[i]) \o SelectedMarkers(c, i + 1)

AllMarkers(c) == GetMarkersOf(0, c.active_line) \o SelectedMarkers(c, 1)

PositionsOf(c, ms) == [i \in 1..Len(ms) |-> Position(c, ms[i])]

\* marker_ptr_cmp: the index is in non-decreasing position order
IsSortedSeq(p) == \A i \in 1..(Len(p) - 1) : p[i] <= p[i + 1]
IsSorted(c) == IsSortedSeq(PositionsOf(c, c.markers))

\* a member of modified_lines: a pointer to a TimeableLine that is alive
\* (tl is its place) or to one that selected_lines.clear() has destroyed
\* (the line and the times it held when it was destroyed)
LiveRef(i) == [tl |-> i, freed |-> FALSE, line |-> NoLine, Start |-> 0, End |-> 0]
FreedRef(i, t) == [tl |-> i, freed |-> TRUE, line |-> t.line,
                   Start |-> GetLeftMarker(t).position,
                   End |-> GetRightMarker(t).position]

\* AnnounceUpdatedPrimaryRange / AnnounceMarkerMoved: what an observer
\* called back at this point finds
Announce(c, kind) ==
    [c EXCEPT !.notified = Append(@, [kind |-> kind, sorted |-> IsSorted(c)])]

----------------------------------------------------------------------------
(* std::sort, std::lower_bound, std::upper_bound *)

RECURSIVE InsertSorted(_, _, _)
\* s with marker m put after the last marker that is not right of it
InsertSorted(c, s, m) ==
    IF s = <<>> THEN <<m>>
    ELSE IF Position(c, m) < Position(c, s[Len(s)])
    THEN Append(InsertSorted(c, SubSeq(s, 1, Len(s) - 1), m), s[Len(s)])
    ELSE Append(s, m)

\* std::sort / boost::sort with marker_ptr_cmp: the markers by non-decreasing
\* position; the ranges sorted here hold a handful of markers, which the
\* library sorts by insertion, so markers at one position keep their order
Sort(c, s) == FoldSeq(LAMBDA acc, m : InsertSorted(c, acc, m), <<>>, s)

\* lower_bound(p, v): the number of elements before the returned iterator.
\* On a range that is not partitioned by (< v) the call has no defined
\* result, and any iterator of the range may come back.
LowerBound(p, v) ==
    LET parts == {k \in 0..Len(p) : /\ \A i \in 1..k : p[i] < v
                                    /\ \A i \in (k + 1)..Len(p) : ~(p[i] < v)}
    IN IF parts # {} THEN parts ELSE 0..Len(p)

\* upper_bound(p, v), likewise
UpperBound(p, v) ==
    LET parts == {k \in 0..Len(p) : /\ \A i \in 1..k : ~(v < p[i])
                                    /\ \A i \in (k + 1)..Len(p) : v < p[i]}
    IN IF parts # {} THEN parts ELSE 0..Len(p)

----------------------------------------------------------------------------
(* Rebuilding the lines and the marker index *)

\* RegenerateMarkers
RegenerateMarkers(c) ==
    {Announce([c EXCEPT !.markers = Sort(c, AllMarkers(c))], "MarkerMoved")}

\* RegenerateInactiveLines
RegenerateInactiveLines(c) == RegenerateMarkers(c)

\* a RegenerateSelectedLines that makes a companion of the active line too
RegenerateSelectedLinesAll(c) ==
    LET was_empty == c.selected_lines = <<>>
        inactive == TimeableLine("style_inactive", "style_inactive")
        freed == {IF ~x.freed /\ x.tl > 0 THEN FreedRef(x.tl, TLof(c, x.tl)) ELSE x :
                  x \in c.modified_lines}
        build(order) == [i \in 1..Len(order) |-> SetLine(inactive, order[i], c.events)[1]]
        d == [c EXCEPT !.selected_lines = build(SetToSeq(c.sel_set)),
                       !.modified_lines = freed]
    IN IF d.selected_lines # <<>> \/ ~was_empty THEN RegenerateMarkers(d) ELSE {d}

\* RegenerateSelectedLines
RegenerateSelectedLines(c) ==
    LET was_empty == c.selected_lines = <<>>
        active == c.sel_active
        inactive == TimeableLine("style_inactive", "style_inactive")
        freed == {IF ~x.freed /\ x.tl > 0 THEN FreedRef(x.tl, TLof(c, x.tl)) ELSE x :
                  x \in c.modified_lines}
        build(order) == [i \in 1..Len(order) |-> SetLine(inactive, order[i], c.events)[1]]
        d == [c EXCEPT !.selected_lines = build(SetToSeq(c.sel_set \ {active})),
                       !.modified_lines = freed]
    IN IF d.selected_lines # <<>> \/ ~was_empty THEN RegenerateMarkers(d) ELSE {d}

\* OnSelectedSetChanged
OnSelectedSetChanged(c) == Bind(RegenerateSelectedLines(c), RegenerateInactiveLines)

\* a Revert that forgets the active line when SetLine kept the markers
RevertActiveForgets(c) ==
    LET c1 == [c EXCEPT !.commit_id = -1, !.reverted = TRUE]
    IN IF c1.sel_active # NoLine
       THEN LET r == SetLine(c1.active_line, c1.sel_active, c1.events)
                c2 == [c1 EXCEPT !.modified_lines = {}, !.active_line = r[1]]
            IN IF r[2] THEN Announce(c2, "UpdatedPrimaryRange") ELSE c2
       ELSE c1

\* Revert, up to the rebuilding of the lines
RevertActive(c) ==
    LET c1 == [c EXCEPT !.commit_id = -1, !.reverted = TRUE]
    IN IF c1.sel_active # NoLine
       THEN LET r == SetLine(c1.active_line, c1.sel_active, c1.events)
                c2 == [c1 EXCEPT !.modified_lines = {}, !.active_line = r[1]]
            IN IF r[2]
               THEN Announce(c2, "UpdatedPrimaryRange")
               ELSE [c2 EXCEPT !.modified_lines = {LiveRef(0)}]
       ELSE c1

\* Revert
Revert(c) == Bind(RegenerateInactiveLines(RevertActive(c)), RegenerateSelectedLines)

\* OnFileChanged
OnFileChanged(c, type) ==
    IF COMMIT_DIAG_TIME \in type THEN Revert(c)
    ELSE IF COMMIT_DIAG_ADDREM \in type THEN RegenerateInactiveLines(c)
    ELSE {c}

----------------------------------------------------------------------------
(* The document and the marker providers, as the controller uses them *)

\* AssFile::Commit: an offered (commit_id, amend) equal to that of the newest
\* undo step is merged into it, anything else (and -1) opens a new step; the
\* commit listeners that are not blocked are then called
FileCommit(c, type, id, amend) ==
    LET coalesce == /\ id # -1
                    /\ c.undo # <<>>
                    /\ c.undo[Len(c.undo)].id = id
                    /\ c.undo[Len(c.undo)].amend = amend
        ret == IF coalesce THEN id ELSE Len(c.undo) + 1
        c1 == [c EXCEPT !.undo = IF coalesce THEN @
                                 ELSE Append(@, [id |-> ret, amend |-> amend]),
                        !.commits = Append(@, [type |-> type, commit_id |-> id,
                                               amend |-> amend, ret |-> ret,
                                               coalesced |-> coalesce,
                                               events |-> c.events]),
                        !.ret = ret]
    IN IF c.commit_blocked
       THEN {c1}
       ELSE {[d EXCEPT !.ret = ret] :
             d \in OnFileChanged([c1 EXCEPT !.listened = TRUE], type)}

\* AudioMarkerProviderKeyframes::GetMarkers: the keyframes in [begin, end]
KeyframesGetMarkers(range) ==
    SetToSeq({k \in keyframes : k >= range.begin /\ k <= range.end})

\* VideoPositionMarkerProvider::GetMarkers
VideoPositionGetMarkers(range) ==
    SetToSeq({k \in video_position : k >= range.begin /\ k <= range.end})

----------------------------------------------------------------------------
(* DoCommit *)

\* a Block() that leaves the connection open
BlockNot(c) == c

\* commit_connection.Block()
Block(c) == [c EXCEPT !.commit_blocked = TRUE]

\* commit_connection.Unblock()
Unblock(c) == [c EXCEPT !.commit_blocked = FALSE]

\* a clear() that removes nothing
ClearModifiedNot(c) == c

\* modified_lines.clear()
ClearModified(c) == [c EXCEPT !.modified_lines = {}]

\* modified_lines.size() == 1 ? (*modified_lines.begin())->GetLine() : nullptr
AmendOf(c) ==
    IF Cardinality(c.modified_lines) = 1
    THEN LET x == CHOOSE y \in c.modified_lines : TRUE
         IN IF x.freed THEN {x.line, NoLine} ELSE {TLof(c, x.tl).line}
    ELSE {NoLine}

RECURSIVE Orders(_)
\* the sequences that enumerate the set S
Orders(S) ==
    IF S = {} THEN {<<>>}
    ELSE UNION {{<<x>> \o r : r \in Orders(S \ {x})} : x \in S}

\* for (auto line : modified_lines) line->Apply(): the events afterwards.
\* The lines that are alive track different subtitle lines; Apply() through a
\* pointer to a destroyed line writes the times it held, or nothing.
ApplyModified(c) ==
    LET live == {x \in c.modified_lines : ~x.freed}
        dead == {x \in c.modified_lines : x.freed /\ x.line # NoLine}
        applyLive(ev) ==
            FoldSeq(LAMBDA e, i : IF LiveRef(i) \in live THEN Apply(TLof(c, i), e) ELSE e,
                    ev, [i \in 1..(Len(c.selected_lines) + 1) |-> i - 1])
        applyDead(ev, order) ==
            FoldSeq(LAMBDA e, x : [e EXCEPT ![x.line] = [Start |-> x.Start, End |-> x.End]],
                    ev, order)
    IN UNION {UNION {{applyLive(applyDead(c.events, o)), applyDead(applyLive(c.events), o)} :
                     o \in Orders(F)} :
              F \in SUBSET dead}

\* commit_id = (the value Commit returned)
StoreCommitId(c) == [c EXCEPT !.commit_id = c.ret]

\* commit_id = -1 after a manually triggered commit
ResetCommitId(c) == [c EXCEPT !.commit_id = -1]

DoCommit(c, user_triggered) ==
    IF c.modified_lines = {} THEN {c}
    ELSE LET applied == {Block([c EXCEPT !.events = ev]) : ev \in ApplyModified(c)}
             committed ==
                 IF user_triggered
                 THEN {ResetCommitId(e) :
                       e \in Bind(applied, LAMBDA d : FileCommit(d, {COMMIT_DIAG_TIME}, -1, NoLine))}
                 ELSE {StoreCommitId(e) :
                       e \in Bind(applied, LAMBDA d :
                                  Bind(AmendOf(c), LAMBDA amend :
                                       FileCommit(d, {COMMIT_DIAG_TIME}, c.commit_id, amend)))}
         IN {ClearModified(Unblock(d)) : d \in committed}

----------------------------------------------------------------------------
(* SnapMarkers *)

\* the lambda check: the nearer of the distance so far and marker - pos
SnapCheck(snap_distance, marker, pos) ==
    LET dist == marker - pos
    IN IF tabs(dist) < tabs(snap_distance) THEN dist ELSE snap_distance

\* the vector inactive_markers when add_inactive takes the moved markers too
InactiveMarkersUnchecked(c, snap_range, active) ==
    LET ps == PositionsOf(c, active)
        lo == FoldSeq(Min2, ps[1], ps)
        hi == FoldSeq(Max2, ps[1], ps)
        marker_range == TimeRange(lo - snap_range, hi + snap_range)
        add_inactive(acc, m) ==
            IF ~Contains(marker_range, Position(c, m)) THEN acc
            ELSE IF acc # <<>> /\ acc[Len(acc)] = Position(c, m) THEN acc
            ELSE Append(acc, Position(c, m))
    IN FoldSeq(add_inactive, <<>>,
               SelectedMarkers(c, 1) \o GetMarkersOf(0, c.active_line))

\* the vector inactive_markers: the lambda add_inactive over the markers of
\* the selected lines and then of the active line, in that order
InactiveMarkers(c, snap_range, active) ==
    LET ps == PositionsOf(c, active)
        lo == FoldSeq(Min2, ps[1], ps)
        hi == FoldSeq(Max2, ps[1], ps)
        marker_range == TimeRange(lo - snap_range, hi + snap_range)
        add_inactive(acc, m) ==
            IF ~Contains(marker_range, Position(c, m)) THEN acc
            ELSE IF acc # <<>> /\ acc[Len(acc)] = Position(c, m) THEN acc
            ELSE IF m \in SeqRange(active) THEN acc
            ELSE Append(acc, Position(c, m))
        moving_entire_selection == c.clicked_ms # INT_MIN
    IN IF moving_entire_selection THEN <<>>
       ELSE FoldSeq(add_inactive, <<>>,
                    SelectedMarkers(c, 1) \o GetMarkersOf(0, c.active_line))

RECURSIVE ScanInactive(_, _, _, _)
\* the loop over inactive_markers from the iterator lower_bound returned
ScanInactive(inactive, i, snap_distance, pos) ==
    IF i > Len(inactive) THEN snap_distance
    ELSE LET d == SnapCheck(snap_distance, inactive[i], pos)
         IN IF d = 0 THEN 0
            ELSE IF inactive[i] > pos THEN d
            ELSE ScanInactive(inactive, i + 1, d, pos)

RECURSIVE SnapSearch(_, _, _, _, _)
\* the loop over the active markers: the values snap_distance can have when
\* the loop ends, 0 standing for the early return
SnapSearch(ps, i, inactive, snap_range, snap_distance) ==
    IF i > Len(ps) THEN {snap_distance}
    ELSE LET pos == ps[i]
             prev == -1
             range == TimeRange(pos - snap_range, pos + snap_range)
             snap_markers == KeyframesGetMarkers(range) \o VideoPositionGetMarkers(range)
             d1 == FoldSeq(LAMBDA d, marker : SnapCheck(d, marker, pos),
                           snap_distance, snap_markers)
         IN IF pos = prev THEN SnapSearch(ps, i + 1, inactive, snap_range, snap_distance)
            ELSE IF d1 = 0 THEN {0}
            ELSE Bind({ScanInactive(inactive, lb + 1, d1, pos) :
                       lb \in LowerBound(inactive, range.begin)},
                      LAMBDA d2 : IF d2 = 0 THEN {0}
                                  ELSE SnapSearch(ps, i + 1, inactive, snap_range, d2))

\* the distances SnapMarkers can return
SnapDistances(c, snap_range, active) ==
    IF snap_range <= 0 \/ active = <<>> THEN {0}
    ELSE {IF tabs(d) > snap_range THEN 0 ELSE d :
          d \in SnapSearch(PositionsOf(c, active), 1,
                           InactiveMarkers(c, snap_range, active), snap_range, INT_MAX)}

\* SnapMarkers: the active markers shifted, the distance in field ret
SnapMarkers(c, snap_range, active) ==
    {IF d = 0 THEN [c EXCEPT !.ret = 0]
     ELSE [FoldSeq(LAMBDA e, m : MarkerSetPosition(e, m, Position(e, m) + d), c, active)
           EXCEPT !.ret = d] :
     d \in SnapDistances(c, snap_range, active)}

----------------------------------------------------------------------------
(* SetMarkers *)

\* UpdateSelection
UpdateSelection(c) == Announce(c, "UpdatedPrimaryRange")

\* the subrange [begin, end) of the index found before the markers move
AffectedSlices(c, upd_markers, ms, shift) ==
    LET w == FoldSeq(LAMBDA a, m :
                     IF shift < 0
                     THEN [min_ms |-> Min2(Position(c, m) + shift, a.min_ms),
                           max_ms |-> Max2(Position(c, m), a.max_ms)]
                     ELSE [min_ms |-> Min2(Position(c, m), a.min_ms),
                           max_ms |-> Max2(Position(c, m) + shift, a.max_ms)],
                     [min_ms |-> ms, max_ms |-> ms], upd_markers)
        ps == PositionsOf(c, c.markers)
    IN UNION {{[begin |-> b, end |-> b + u] :
               u \in UpperBound(SubSeq(ps, b + 1, Len(ps)), w.max_ms)} :
              b \in LowerBound(ps, w.min_ms)}

\* sort(begin, end, marker_ptr_cmp())
Resort(c, slice) ==
    {[c EXCEPT !.markers = SubSeq(@, 1, slice.begin)
                           \o Sort(c, SubSeq(@, slice.begin + 1, slice.end))
                           \o SubSeq(@, slice.end + 1, Len(@))]}

\* an update loop that puts every marker at ms
UpdateMarkersAbsolute(c, upd_markers, ms, shift) ==
    FoldSeq(LAMBDA e, m :
            [MarkerSetPosition(e, m, ms)
             EXCEPT !.modified_lines = @ \cup {LiveRef(m[1])}],
            c, upd_markers)

\* the loop that updates the markers
UpdateMarkers(c, upd_markers, ms, shift) ==
    FoldSeq(LAMBDA e, m :
            [MarkerSetPosition(e, m, IF e.clicked_ms # INT_MIN THEN Position(e, m) + shift ELSE ms)
             EXCEPT !.modified_lines = @ \cup {LiveRef(m[1])}],
            c, upd_markers)

\* SetMarkers without the return on an empty list
SetMarkersAlways(c, upd_markers, ms, snap_range) ==
    LET shift == IF c.clicked_ms # INT_MIN THEN ms - c.clicked_ms ELSE 0
        c1 == IF shift # 0 THEN [c EXCEPT !.clicked_ms = ms] ELSE c
        moved == UpdateMarkers(c1, upd_markers, ms, shift)
        snappedStates ==
            {[d EXCEPT !.snap = d.ret,
                       !.clicked_ms = IF @ # INT_MIN THEN @ + d.ret ELSE @] :
             d \in SnapMarkers(moved, snap_range, upd_markers)}
        sorted == Bind(snappedStates, LAMBDA d :
                       Bind(AffectedSlices(c1, upd_markers, ms, shift),
                            LAMBDA slice : Resort(d, slice)))
        done == IF auto_commit
                THEN Bind(sorted, LAMBDA d : DoCommit(d, FALSE))
                ELSE sorted
    IN {Announce(UpdateSelection(d), "MarkerMoved") : d \in done}

SetMarkers(c, upd_markers, ms, snap_range) ==
    IF upd_markers = <<>> THEN {c}
    ELSE LET shift == IF c.clicked_ms # INT_MIN THEN ms - c.clicked_ms ELSE 0
             c1 == IF shift # 0 THEN [c EXCEPT !.clicked_ms = ms] ELSE c
             moved == UpdateMarkers(c1, upd_markers, ms, shift)
             snappedStates ==
                 {[d EXCEPT !.snap = d.ret,
                            !.clicked_ms = IF @ # INT_MIN THEN @ + d.ret ELSE @] :
                  d \in SnapMarkers(moved, snap_range, upd_markers)}
             sorted == Bind(snappedStates, LAMBDA d :
                            Bind(AffectedSlices(c1, upd_markers, ms, shift),
                                 LAMBDA slice : Resort(d, slice)))
             done == IF auto_commit
                     THEN Bind(sorted, LAMBDA d : DoCommit(d, FALSE))
                     ELSE sorted
         IN {Announce(UpdateSelection(d), "MarkerMoved") : d \in done}

----------------------------------------------------------------------------
(* The selection controller and the command Next() calls *)

\* SelectionController::SetSelectionAndActive: the active-line listener
\* (Revert) runs if the active line changed, then the selection listener
SetSelectionAndActive(c, new_selection, new_line) ==
    LET c1 == [c EXCEPT !.sel_set = new_selection, !.sel_active = new_line]
    IN Bind(IF new_line # c.sel_active THEN Revert(c1) ELSE {c1}, OnSelectedSetChanged)

\* SelectionController::NextLine
NextLine(c) ==
    IF c.sel_active # NoLine /\ c.sel_active < Len(c.events)
    THEN SetSelectionAndActive(c, {c.sel_active + 1}, c.sel_active + 1)
    ELSE {c}

\* SelectionController::PrevLine
PrevLine(c) ==
    IF c.sel_active > 1
    THEN SetSelectionAndActive(c, {c.sel_active - 1}, c.sel_active - 1)
    ELSE {c}

\* the command grid/line/next/create: go to the next line, appending
\* new_line to the document first when the active line is the last one
CreateNextLine(c, new_line) ==
    IF c.sel_active < Len(c.events) THEN NextLine(c)
    ELSE Bind(FileCommit([c EXCEPT !.events = Append(@, new_line)],
                         {COMMIT_DIAG_ADDREM}, -1, NoLine),
              NextLine)

----------------------------------------------------------------------------
(* The handlers of AudioTimingController *)

\* Next
NextMode(c, mode, new_line) ==
    IF mode = "TIMING_UNIT" THEN NextLine(c)
    ELSE LET new_end_ms == GetRightMarker(c.active_line).position
         IN Bind(CreateNextLine(c, new_line), LAMBDA d :
                 IF mode = "LINE_RESET_DEFAULT" \/ d.events[d.active_line.line].End = 0
                 THEN LET d1 == MarkerSetPosition(d, <<0, d.active_line.right_marker>>,
                                                  new_end_ms + DefaultDuration)
                          d2 == MarkerSetPosition(d1, <<0, d1.active_line.left_marker>>,
                                                  new_end_ms)
                      IN {UpdateSelection([d2 EXCEPT !.markers = Sort(d2, @),
                                                     !.modified_lines = @ \cup {LiveRef(0)}])}
                 ELSE {d})

\* Prev
Prev(c) == PrevLine(c)

\* Commit
Commit(c) == DoCommit(c, TRUE)

\* AddLeadIn
AddLeadIn(c) ==
    LET m == <<0, c.active_line.left_marker>>
    IN SetMarkers(c, <<m>>, Position(c, m) - LeadIn, 0)

\* AddLeadOut
AddLeadOut(c) ==
    LET m == <<0, c.active_line.right_marker>>
    IN SetMarkers(c, <<m>>, Position(c, m) + LeadOut, 0)

\* ModifyLength
ModifyLength(c, delta) ==
    LET m == <<0, c.active_line.right_marker>>
    IN SetMarkers(c, <<m>>,
                  Max2(Position(c, m) + delta * 10, GetLeftMarker(c.active_line).position), 0)

\* ModifyStart
ModifyStart(c, delta) ==
    LET m == <<0, c.active_line.left_marker>>
    IN SetMarkers(c, <<m>>,
                  Min2(Position(c, m) + delta * 10, GetRightMarker(c.active_line).position), 0)

\* GetMarkers: the vectors out_markers can hold afterwards, a tracked marker
\* as [line, marker, position] and a keyframe as [line |-> -1, marker |-> 0,
\* position]
GetMarkers(c, range) ==
    LET ps == PositionsOf(c, c.markers)
        tracked(b, e) == [i \in 1..(e - b) |->
                          [line |-> c.markers[b + i][1], marker |-> c.markers[b + i][2],
                           position |-> ps[b + i]]]
        kf == KeyframesGetMarkers(range)
        keyframe_markers == [i \in 1..Len(kf) |->
                             [line |-> -1, marker |-> 0, position |-> kf[i]]]
    IN UNION {{(IF b <= e THEN tracked(b, e) ELSE <<>>) \o keyframe_markers :
               e \in UpperBound(ps, range.end)} :
              b \in LowerBound(ps, range.begin)}

\* an IsNearbyMarker that looks at the markers of the companions too
IsNearbyMarkerAnyLine(c, ms, sensitivity, alt_down) ==
    \/ alt_down
    \/ \E i \in 0..Len(c.selected_lines) :
        ContainsMarker(TLof(c, i), TimeRange(ms - sensitivity, ms + sensitivity))

\* IsNearbyMarker
IsNearbyMarker(c, ms, sensitivity, alt_down) ==
    alt_down \/ ContainsMarker(c.active_line, TimeRange(ms - sensitivity, ms + sensitivity))

\* an OnLeftClick that moves the marker it picks, left or right
OnLeftClickMovesAny(c, ms, alt_down, sensitivity, snap_range) ==
    LET c0 == [c EXCEPT !.clicked_ms = INT_MIN]
        left == <<0, c.active_line.left_marker>>
        right == <<0, c.active_line.right_marker>>
        dist_l == tabs(Position(c, left) - ms)
        dist_r == tabs(Position(c, right) - ms)
        hit == {l \in 1..Len(c.events) : ms >= c.events[l].Start /\ ms <= c.events[l].End}
        first == CHOOSE l \in hit : \A k \in hit : l <= k
        clicked == IF dist_l <= dist_r THEN left ELSE right
    IN IF alt_down
       THEN {[c0 EXCEPT !.clicked_ms = ms, !.out = AllMarkers(c)]}
       ELSE IF dist_l > sensitivity /\ dist_r > sensitivity
       THEN IF hit = {} THEN {c0} ELSE SetSelectionAndActive(c0, {first}, first)
       ELSE {[d EXCEPT !.out = <<clicked>>] : d \in SetMarkers(c0, <<clicked>>, ms, snap_range)}

\* OnLeftClick: the markers returned are in field out
OnLeftClick(c, ms, alt_down, sensitivity, snap_range) ==
    LET c0 == [c EXCEPT !.clicked_ms = INT_MIN]
        left == <<0, c.active_line.left_marker>>
        right == <<0, c.active_line.right_marker>>
        dist_l == tabs(Position(c, left) - ms)
        dist_r == tabs(Position(c, right) - ms)
        hit == {l \in 1..Len(c.events) : ms >= c.events[l].Start /\ ms <= c.events[l].End}
        first == CHOOSE l \in hit : \A k \in hit : l <= k
        clicked == IF dist_l <= dist_r THEN left ELSE right
    IN IF alt_down
       THEN {[c0 EXCEPT !.clicked_ms = ms, !.out = AllMarkers(c)]}
       ELSE IF dist_l > sensitivity /\ dist_r > sensitivity
       THEN IF hit = {} THEN {c0} ELSE SetSelectionAndActive(c0, {first}, first)
       ELSE IF clicked = left
       THEN {[d EXCEPT !.out = <<clicked>>] : d \in SetMarkers(c0, <<clicked>>, ms, snap_range)}
       ELSE {[c0 EXCEPT !.out = <<clicked>>]}

\* OnMarkerDrag
OnMarkerDrag(c, upd_markers, new_position, snap_range) ==
    SetMarkers(c, upd_markers, new_position, snap_range)

\* AudioTimingControllerDialogue::AudioTimingControllerDialogue: the
\* controller over a document and a selection; clicked_ms gets no value
Construct(w, garbage) ==
    Revert([events |-> w.events, sel_active |-> w.sel_active, sel_set |-> w.sel_set,
            active_line |-> TimeableLine("style_left", "style_right"),
            selected_lines |-> <<>>, markers |-> <<>>, modified_lines |-> {},
            commit_id |-> -1, clicked_ms |-> garbage, commit_blocked |-> FALSE,
            undo |-> <<>>, notified |-> <<>>, commits |-> <<>>, listened |-> FALSE,
            reverted |-> FALSE,
            snap |-> 0, ret |-> 0, out |-> <<>>])

----------------------------------------------------------------------------
(* Documents the controller starts on, and the inputs explored *)

Line(start, end) == [Start |-> start, End |-> end]

\* the controller on its own, no AudioDisplay attached
NoDisplay == [state |-> "none"]
NoOption == [name |-> "none"]

Worlds ==
    {[events |-> <<Line(1000, 2000), Line(1100, 1900)>>, sel_active |-> 1,
      sel_set |-> {1, 2}, keyframes |-> {980}, video_position |-> {}],
     [events |-> <<Line(990, 1010), Line(1030, 2000)>>, sel_active |-> 1,
      sel_set |-> {1, 2}, keyframes |-> {}, video_position |-> {1500}],
     [events |-> <<Line(100, 400), Line(0, 0)>>, sel_active |-> 1,
      sel_set |-> {1}, keyframes |-> {120}, video_position |-> {}],
     [events |-> <<Line(0, 0), Line(300, 600)>>, sel_active |-> NoLine,
      sel_set |-> {}, keyframes |-> {}, video_position |-> {}]}

Uninitialized == {INT_MIN, 0}       \* values an int without initializer may hold
ClickTimes == {1000, 1500}
AltClickTimes == {1500}
Sensitivities == {50}
DragInputs == {<<1000, 50>>, <<1520, 50>>, <<1520, 0>>, <<2500, 0>>}   \* <<ms, snap_range>>
ClickSnapRanges == {50}
LengthDeltas == {-150}
StartDeltas == {150}
NextModes == {"TIMING_UNIT", "LINE", "LINE_RESET_DEFAULT"}
NewLines == {Line(0, 0), Line(5000, 7000)}
ExternalTimes == {Line(1200, 1800)}

----------------------------------------------------------------------------
(* The state machine *)

\* the controller state the next handler starts from
Cur ==
    [events |-> events, sel_active |-> sel_active, sel_set |-> sel_set,
     active_line |-> active_line, selected_lines |-> selected_lines,
     markers |-> markers, modified_lines |-> modified_lines,
     commit_id |-> commit_id, clicked_ms |-> clicked_ms,
     commit_blocked |-> commit_blocked, undo |-> undo,
     notified |-> <<>>, commits |-> <<>>, listened |-> FALSE, reverted |-> FALSE,
     snap |-> 0, ret |-> 0, out |-> <<>>]

Install(d) ==
    /\ events' = d.events
    /\ sel_active' = d.sel_active
    /\ sel_set' = d.sel_set
    /\ active_line' = d.active_line
    /\ selected_lines' = d.selected_lines
    /\ markers' = d.markers
    /\ modified_lines' = d.modified_lines
    /\ commit_id' = d.commit_id
    /\ clicked_ms' = d.clicked_ms
    /\ commit_blocked' = d.commit_blocked
    /\ undo' = d.undo
    /\ notified' = d.notified
    /\ commits' = d.commits
    /\ listened' = d.listened
    /\ reverted' = d.reverted
    /\ snapped' = d.snap
    /\ nops' = nops + 1
    /\ UNCHANGED <<auto_commit, keyframes, video_position, display, option, budget>>

Op(name, ms, snap_range, upd) ==
    [name |-> name, ms |-> ms, snap_range |-> snap_range, upd |-> upd]

Constructed(w, ac, garbage) ==
        /\ keyframes = w.keyframes
        /\ video_position = w.video_position
        /\ auto_commit = ac
        /\ \E d \in Construct(w, garbage) :
            /\ events = d.events
            /\ sel_active = d.sel_active
            /\ sel_set = d.sel_set
            /\ active_line = d.active_line
            /\ selected_lines = d.selected_lines
            /\ markers = d.markers
            /\ modified_lines = d.modified_lines
            /\ commit_id = d.commit_id
            /\ clicked_ms = d.clicked_ms
            /\ commit_blocked = d.commit_blocked
            /\ undo = d.undo
            /\ notified = d.notified
            /\ commits = d.commits
            /\ listened = d.listened
            /\ reverted = d.reverted
            /\ snapped = d.snap
        /\ dragged = <<>>
        /\ op = Op("Construct", 0, 0, <<>>)
        /\ nops = 0
        /\ display = NoDisplay /\ option = NoOption

Init ==
    \E w \in Worlds, ac \in BOOLEAN, garbage \in Uninitialized :
        Constructed(w, ac, garbage) /\ budget = MaxOps

\* left button down without Alt
LeftClick ==
    /\ nops < budget /\ dragged = <<>>
    /\ \E ms \in ClickTimes, sensitivity \in Sensitivities, snap_range \in ClickSnapRanges :
        \E d \in OnLeftClick(Cur, ms, FALSE, sensitivity, snap_range) :
            /\ Install(d)
            /\ dragged' = d.out
            /\ op' = Op("OnLeftClick", ms, snap_range, d.out)

\* left button down with Alt
AltLeftClick ==
    /\ nops < budget /\ dragged = <<>>
    /\ \E ms \in AltClickTimes, sensitivity \in Sensitivities, snap_range \in ClickSnapRanges :
        \E d \in OnLeftClick(Cur, ms, TRUE, sensitivity, snap_range) :
            /\ Install(d)
            /\ dragged' = d.out
            /\ op' = Op("OnLeftClickAlt", ms, snap_range, d.out)

\* mouse moved with the button held
MarkerDrag ==
    /\ nops < budget /\ dragged # <<>>
    /\ \E in \in DragInputs :
        \E d \in OnMarkerDrag(Cur, dragged, in[1], in[2]) :
            /\ Install(d)
            /\ UNCHANGED dragged
            /\ op' = Op("OnMarkerDrag", in[1], in[2], dragged)

\* OnMarkerDrag called with no markers
MarkerDragEmpty ==
    /\ nops < budget /\ dragged = <<>>
    /\ \E in \in DragInputs :
        \E d \in OnMarkerDrag(Cur, <<>>, in[1], in[2]) :
            /\ Install(d)
            /\ UNCHANGED dragged
            /\ op' = Op("OnMarkerDragEmpty", in[1], in[2], <<>>)

\* button released: the display leaves DRAGGING_AUDIO_MARKER
Release ==
    /\ dragged # <<>>
    /\ dragged' = <<>>
    /\ UNCHANGED <<events, sel_active, sel_set, active_line, selected_lines, markers,
                   modified_lines, commit_id, clicked_ms, commit_blocked, auto_commit,
                   keyframes, video_position, undo, op, notified, commits,
                   listened, reverted, snapped, nops, display, option, budget>>

DoAddLeadIn ==
    /\ nops < budget
    /\ \E d \in AddLeadIn(Cur) :
        Install(d) /\ UNCHANGED dragged
        /\ op' = Op("AddLeadIn", 0, 0, <<<<0, active_line.left_marker>>>>)

DoAddLeadOut ==
    /\ nops < budget
    /\ \E d \in AddLeadOut(Cur) :
        Install(d) /\ UNCHANGED dragged
        /\ op' = Op("AddLeadOut", 0, 0, <<<<0, active_line.right_marker>>>>)

DoModifyLength ==
    /\ nops < budget
    /\ \E delta \in LengthDeltas : \E d \in ModifyLength(Cur, delta) :
        Install(d) /\ UNCHANGED dragged
        /\ op' = Op("ModifyLength", delta, 0, <<<<0, active_line.right_marker>>>>)

DoModifyStart ==
    /\ nops < budget
    /\ \E delta \in StartDeltas : \E d \in ModifyStart(Cur, delta) :
        Install(d) /\ UNCHANGED dragged
        /\ op' = Op("ModifyStart", delta, 0, <<<<0, active_line.left_marker>>>>)

DoCommitManual ==
    /\ nops < budget
    /\ \E d \in Commit(Cur) :
        Install(d) /\ UNCHANGED dragged /\ op' = Op("Commit", 0, 0, <<>>)

DoNext ==
    /\ nops < budget /\ dragged = <<>> /\ sel_active # NoLine
    /\ \E mode \in NextModes, new_line \in NewLines :
        /\ mode # "TIMING_UNIT" => sel_active < Len(events) \/ Len(events) < MaxLines
        /\ \E d \in NextMode(Cur, mode, new_line) :
            Install(d) /\ UNCHANGED dragged /\ op' = Op(mode, 0, 0, <<>>)

DoPrev ==
    /\ nops < budget /\ dragged = <<>>
    /\ \E d \in Prev(Cur) :
        Install(d) /\ UNCHANGED dragged /\ op' = Op("Prev", 0, 0, <<>>)

\* the user picks lines in the subtitle grid
ExternalSelect ==
    /\ nops < budget /\ dragged = <<>>
    /\ \E l \in 1..Len(events) : \E S \in {{l}, 1..Len(events)} :
        /\ <<S, l>> # <<sel_set, sel_active>>
        /\ \E d \in SetSelectionAndActive(Cur, S, l) :
            Install(d) /\ UNCHANGED dragged /\ op' = Op("ExternalSelect", l, 0, <<>>)

\* another part of the program commits a change of the times of a line
ExternalCommitTime ==
    /\ nops < budget /\ dragged = <<>>
    /\ \E l \in 1..Len(events), t \in ExternalTimes :
        \E d \in FileCommit([Cur EXCEPT !.events[l] = t], {COMMIT_DIAG_TIME}, -1, NoLine) :
            Install(d) /\ UNCHANGED dragged /\ op' = Op("ExternalCommitTime", l, 0, <<>>)

\* another part of the program commits a new line, or a change of text
ExternalCommitOther ==
    /\ nops < budget /\ dragged = <<>>
    /\ \/ /\ Len(events) < MaxLines
          /\ \E new_line \in NewLines :
              \E d \in FileCommit([Cur EXCEPT !.events = Append(@, new_line)],
                                  {COMMIT_DIAG_ADDREM}, -1, NoLine) :
                  Install(d) /\ UNCHANGED dragged
                  /\ op' = Op("ExternalCommitAddRem", 0, 0, <<>>)
       \/ \E d \in FileCommit(Cur, {COMMIT_DIAG_TEXT}, -1, NoLine) :
              Install(d) /\ UNCHANGED dragged
              /\ op' = Op("ExternalCommitText", 0, 0, <<>>)

Next ==
    \/ LeftClick
    \/ AltLeftClick
    \/ MarkerDrag
    \/ MarkerDragEmpty
    \/ Release
    \/ DoAddLeadIn
    \/ DoAddLeadOut
    \/ DoModifyLength
    \/ DoModifyStart
    \/ DoCommitManual
    \/ DoNext
    \/ DoPrev
    \/ ExternalSelect
    \/ ExternalCommitTime
    \/ ExternalCommitOther

Spec == Init /\ [][Next]_vars

\* A longer session on one document with auto-commit off: behaviours of the
\* same controller under the same handlers, one handler deeper.
MaxSessionOps == 4
SessionWorlds == {w \in Worlds : w.video_position # {} /\ Cardinality(w.sel_set) = 2}

SessionInit ==
    \E w \in SessionWorlds :
        Constructed(w, FALSE, INT_MIN) /\ budget = MaxSessionOps

SpecSession == SessionInit /\ [][Next]_vars

----------------------------------------------------------------------------
(* A TimeableLine on its own: SetLine, SetPosition on either marker and     *)
(* Apply in any order, over a document of two lines.  The line is held in   *)
(* active_line, the document in events; op records the call made last.      *)

LineDocs ==
    {<<Line(100, 400), Line(0, 0)>>,
     <<Line(0, 0), Line(500, 700)>>,
     <<Line(1000, 2000), Line(300, 300)>>}
LinePositions == {0, 250, 2500}

NoCall == [name |-> "none"]

LineInit ==
    /\ events \in LineDocs
    /\ active_line = TimeableLine("style_left", "style_right")
    /\ op = NoCall
    /\ sel_active = NoLine /\ sel_set = {} /\ selected_lines = <<>>
    /\ markers = <<>> /\ modified_lines = {} /\ commit_id = -1
    /\ clicked_ms = INT_MIN /\ commit_blocked = FALSE /\ auto_commit = FALSE
    /\ keyframes = {} /\ video_position = {} /\ undo = <<>> /\ dragged = <<>>
    /\ notified = <<>> /\ commits = <<>> /\ listened = FALSE /\ reverted = FALSE
    /\ snapped = 0 /\ nops = 0
    /\ display = NoDisplay /\ option = NoOption /\ budget = MaxOps

LineRest ==
    <<sel_active, sel_set, selected_lines, markers, modified_lines, commit_id,
      clicked_ms, commit_blocked, auto_commit, keyframes, video_position, undo,
      dragged, notified, commits, listened, reverted, snapped, nops, display,
      option, budget>>

\* SetLine(&events[l])
LineSetLine ==
    \E l \in 1..Len(events) :
        LET r == SetLine(active_line, l, events)
        IN /\ active_line' = r[1]
           /\ op' = [name |-> "SetLine", line |-> l, before |-> events[l],
                     bound |-> active_line.line # NoLine,
                     left |-> GetLeftMarker(active_line).position,
                     right |-> GetRightMarker(active_line).position,
                     ret |-> r[2]]
           /\ UNCHANGED events
           /\ UNCHANGED LineRest

\* SetPosition(p) on marker1 or marker2
LineSetPosition ==
    \E k \in {1, 2}, p \in LinePositions :
        /\ active_line' = SetPosition(active_line, k, p)
        /\ op' = [name |-> "SetPosition", marker |-> k, position |-> p,
                  was |-> active_line]
        /\ UNCHANGED events
        /\ UNCHANGED LineRest

\* Apply()
LineApply ==
    /\ events' = Apply(active_line, events)
    /\ op' = [name |-> "Apply", after |-> IF op.name = "SetLine" THEN op ELSE NoCall]
    /\ UNCHANGED active_line
    /\ UNCHANGED LineRest

LineNext ==
    \/ LineSetLine
    \/ LineSetPosition
    \/ LineApply

SpecLine == LineInit /\ [][LineNext]_vars

----------------------------------------------------------------------------
(* The AudioDisplay (src/src/audio_display.cpp): a record d holding          *)
(* scroll_left, pixel_audio_width, zoom_level, ms_per_pixel (mpp, the       *)
(* fraction <<numerator, denominator>>), the duration of the audio, the     *)
(* client width of the window, track_cursor_pos, the drag state, whether    *)
(* the window has the mouse capture, whether audio_marker holds an object,  *)
(* whether scroll_timer runs and whether the listeners are connected.       *)
(* audio_marker is "none" or the button that started the marker drag; opt   *)
(* holds the options the display reads: Audio/Auto/Scroll, Audio/Lock       *)
(* Scroll on Cursor and Audio/Smooth Scrolling.                             *)

DRAGGING_IDLE == "DRAGGING_IDLE"
DRAGGING_TIMELINE == "DRAGGING_TIMELINE"
DRAGGING_AUDIO_MARKER == "DRAGGING_AUDIO_MARKER"

\* conversion of a quotient to int: towards zero (b > 0)
TruncDiv(a, b) == IF a >= 0 THEN a \div b ELSE -((-a) \div b)

\* AudioDisplay::GetZoomLevelFactor
GetZoomLevelFactor(level) ==
    IF level > 0 THEN 100 + 25 * level
    ELSE IF level < 0
    THEN LET factor == IF level >= -5 THEN 100 + 10 * level
                       ELSE IF level >= -11 THEN 50 + (level + 5) * 5
                       ELSE 20 + level + 11
         IN IF factor <= 0 THEN 1 ELSE factor
    ELSE 100

\* AudioDisplay::AbsoluteXFromTime: int(ms / ms_per_pixel)
AbsoluteXFromTime(d, ms) == TruncDiv(ms * d.mpp[2], d.mpp[1])

\* AudioDisplay::RelativeXFromTime
RelativeXFromTime(d, ms) == AbsoluteXFromTime(d, ms) - d.scroll_left

\* AudioDisplay::TimeFromAbsoluteX: int(x * ms_per_pixel)
TimeFromAbsoluteX(d, x) == TruncDiv(x * d.mpp[1], d.mpp[2])

\* AudioDisplay::TimeFromRelativeX
TimeFromRelativeX(d, x) == TimeFromAbsoluteX(d, x + d.scroll_left)

\* AudioDisplay::ScrollPixelToLeft
ScrollPixelToLeft(d, pixel_position) ==
    LET p1 == IF pixel_position + d.client_width >= d.pixel_audio_width
              THEN d.pixel_audio_width - d.client_width
              ELSE pixel_position
        p2 == IF p1 < 0 THEN 0 ELSE p1
    IN [d EXCEPT !.scroll_left = p2]

\* AudioDisplay::ScrollBy
ScrollBy(d, pixel_amount) == ScrollPixelToLeft(d, d.scroll_left + pixel_amount)

\* a range that is not in view is always aligned at its left edge
ScrollTimeRangeInViewLeftAligned(d, range) ==
    LET range_begin == AbsoluteXFromTime(d, range.begin)
        range_end == AbsoluteXFromTime(d, range.end)
        leftadjust == d.client_width \div 20
        client_left == d.scroll_left + leftadjust
        client_width == (d.client_width * 9) \div 10
    IN IF range_begin >= client_left /\ range_end <= client_left + client_width
       THEN d
       ELSE ScrollPixelToLeft(d, range_begin - leftadjust)

\* AudioDisplay::ScrollTimeRangeInView
ScrollTimeRangeInView(d, range) ==
    LET range_begin == AbsoluteXFromTime(d, range.begin)
        range_end == AbsoluteXFromTime(d, range.end)
        range_len == range_end - range_begin
        leftadjust == d.client_width \div 20
        client_left == d.scroll_left + leftadjust
        client_width == (d.client_width * 9) \div 10
    IN IF range_begin >= client_left /\ range_end <= client_left + client_width
       THEN d
       ELSE IF range_len < client_width
       THEN ScrollPixelToLeft(d, range_begin - TruncDiv(client_width - range_len, 2) - leftadjust)
       ELSE IF range_begin < client_left /\ range_end > client_left + client_width
       THEN d
       ELSE IF range_end >= client_left /\ range_end < client_left + client_width
       THEN ScrollPixelToLeft(d, range_end - client_width - leftadjust)
       ELSE ScrollPixelToLeft(d, range_begin - leftadjust)

\* AudioDisplay::SetZoomLevel; cursor_pos is kept doubled (it may be half a pixel)
SetZoomLevel(d, new_zoom_level) ==
    LET factor == GetZoomLevelFactor(new_zoom_level)
        new_ms_per_pixel == <<2000, factor>>
        d1 == [d EXCEPT !.zoom_level = new_zoom_level]
        cursor_pos2 == IF d.track_cursor_pos >= 0
                       THEN 2 * (d.track_cursor_pos - d.scroll_left)
                       ELSE d.client_width
        cursor_time == TruncDiv((2 * d.scroll_left + cursor_pos2) * d.mpp[1], 2 * d.mpp[2])
        d2 == [d1 EXCEPT !.mpp = new_ms_per_pixel,
                         !.pixel_audio_width = Max2(1, TruncDiv(d.duration * factor, 2000))]
        x == AbsoluteXFromTime(d2, cursor_time)
        d3 == ScrollPixelToLeft(d2, TruncDiv(2 * x - cursor_pos2, 2))
    IN IF d.mpp = new_ms_per_pixel THEN d1
       ELSE IF d.track_cursor_pos >= 0 THEN [d3 EXCEPT !.track_cursor_pos = x]
       ELSE d3

\* AudioDisplay::SetTrackCursor
SetTrackCursor(d, new_pos) == [d EXCEPT !.track_cursor_pos = new_pos]

\* AudioDisplay::RemoveTrackCursor
RemoveTrackCursor(d) == SetTrackCursor(d, -1)

\* AudioDisplay::JumpToTime
JumpToTime(d, mouse_x) == SetTrackCursor(d, d.scroll_left + mouse_x)

\* AudioDisplay::OnSelectionChanged; sel is GetPrimaryPlaybackRange(),
\* marker_ms is audio_marker->GetPosition()
DisplayOnSelectionChanged(d, sel, marker_ms) ==
    IF d.audio_marker # "none"
    THEN IF ~d.scroll_timer
         THEN LET rel_x == RelativeXFromTime(d, marker_ms)
              IN IF rel_x < 0 \/ rel_x >= d.client_width
                 THEN [d EXCEPT !.scroll_timer = TRUE]
                 ELSE d
         ELSE d
    ELSE IF d.opt.auto_scroll /\ sel.end # 0 THEN ScrollTimeRangeInView(d, sel)
    ELSE d

\* AudioDisplay::OnScrollTimer, the timer being one-shot
OnScrollTimer(d, marker_ms) ==
    LET d1 == [d EXCEPT !.scroll_timer = FALSE]
        rel_x == RelativeXFromTime(d1, marker_ms)
        width == d1.client_width
    IN IF d1.audio_marker = "none" THEN d1
       ELSE IF rel_x < 0 THEN ScrollBy(d1, rel_x - width \div 20)
       ELSE IF rel_x >= width THEN ScrollBy(d1, rel_x - width + width \div 20)
       ELSE d1

\* AudioDisplay::OnPlaybackPosition
OnPlaybackPosition(d, ms) ==
    LET pixel_position == AbsoluteXFromTime(d, ms)
        d1 == SetTrackCursor(d, pixel_position)
        client_width == d.client_width
        edge_size == client_width \div 20
    IN IF ~d.opt.lock_scroll THEN d1
       ELSE IF d1.scroll_left > 0 /\ pixel_position < d1.scroll_left + edge_size
       THEN ScrollPixelToLeft(d1, Max2(pixel_position - edge_size, 0))
       ELSE IF d1.scroll_left + client_width
               < Min2(d1.pixel_audio_width - 1, pixel_position + edge_size)
       THEN IF d.opt.smooth
            THEN ScrollPixelToLeft(d1, Min2(pixel_position - client_width + edge_size,
                                            d1.pixel_audio_width - client_width - 1))
            ELSE ScrollPixelToLeft(d1, Min2(pixel_position - edge_size,
                                            d1.pixel_audio_width - client_width - 1))
       ELSE d1

\* AudioDisplay::OnSize: the window already has its new client width, and
\* the handler lays out the timeline and the renderer
OnSize(d, width) == [d EXCEPT !.client_width = width]

\* AudioDisplay::OnTimingController
OnTimingController(d, timing, sel, marker_ms) ==
    IF timing THEN DisplayOnSelectionChanged(d, sel, marker_ms) ELSE d

\* AudioDisplay::OnAudioOpen; duration is GetDuration() of the new provider
OnAudioOpen(d, has_provider, duration, timing, sel, marker_ms) ==
    LET d1 == SetZoomLevel([d EXCEPT !.provider = has_provider,
                                     !.duration = IF has_provider THEN duration ELSE 0,
                                     !.mpp = <<0, 1>>],
                           d.zoom_level)
    IN IF has_provider
       THEN IF ~d1.connected
            THEN OnTimingController([d1 EXCEPT !.connected = TRUE],
                                    timing, sel, marker_ms)
            ELSE d1
       ELSE [d1 EXCEPT !.connected = FALSE]

\* AudioMarkerInteractionObject::OnMouseEvent: <<the display afterwards (the
\* timing controller announces the new range while it handles the drag),
\* the value returned>>
MarkerObjectOnMouseEvent(d, event, sel, marker_ms) ==
    <<IF event.type = "Dragging"
      THEN DisplayOnSelectionChanged([d EXCEPT !.marker_dragged = TRUE], sel, marker_ms)
      ELSE d,
      ~(event.type = "LeftUp" /\ d.audio_marker = "left")
          /\ ~(event.type = "RightUp" /\ d.audio_marker = "right")>>

\* the second half of OnMouseEvent without ReleaseMouse
FinishMouseEventHolds(d, event, newState, playing) ==
    LET d1 == [d EXCEPT !.state = newState]
    IN IF d1.state # DRAGGING_IDLE
       THEN [d1 EXCEPT !.has_capture = TRUE]
       ELSE IF event.middle_is_down THEN JumpToTime(d1, event.x)
       ELSE IF ~playing THEN RemoveTrackCursor(d1)
       ELSE d1

\* AudioDisplay::OnMouseEvent, second half: state = newState and the capture
FinishMouseEvent(d, event, newState, playing) ==
    LET d1 == [d EXCEPT !.state = newState]
    IN IF d1.state # DRAGGING_IDLE
       THEN [d1 EXCEPT !.has_capture = TRUE]
       ELSE LET d2 == [d1 EXCEPT !.has_capture = FALSE]
            IN IF event.middle_is_down THEN JumpToTime(d2, event.x)
               ELSE IF ~playing THEN RemoveTrackCursor(d2)
               ELSE d2

\* the capture is never found lost
CaptureLostNever(d) == FALSE

\* AudioDisplay::OnMouseEvent, "error handling, capture lost"
CaptureLost(d) == d.state # DRAGGING_IDLE /\ ~d.has_capture

\* AudioDisplay::OnMouseEvent.  event: type, x, where (timeline, audio,
\* outside the client rectangle), left_is_down, middle_is_down.  timing: there is a timing
\* controller; hit: its OnLeftClick returned markers, or for a move its
\* IsNearbyMarker returned true; sel, marker_ms: what it announces while it
\* handles the click or the drag.  The result has the field skipped set when
\* the event was passed on unhandled, and the field marker_dragged set when
\* the event was handed to OnMarkerDrag of the timing controller.
DisplayOnMouseEvent(d, event, timing, hit, sel, marker_ms, playing) ==
    LET d0 == [d EXCEPT !.skipped = FALSE, !.marker_dragged = FALSE]
    IN IF event.type = "Moving" /\ event.where = "outside"
       THEN [d0 EXCEPT !.skipped = TRUE]
       ELSE IF CaptureLost(d0)
       THEN FinishMouseEvent([d0 EXCEPT !.cursor = "default"], event, DRAGGING_IDLE, playing)
       ELSE IF d0.state = DRAGGING_IDLE
       THEN IF event.where = "timeline"
            THEN IF event.type = "LeftDown"
                 THEN FinishMouseEvent(JumpToTime(d0, event.x), event, DRAGGING_TIMELINE, playing)
                 ELSE FinishMouseEvent(d0, event, d0.state, playing)
            ELSE IF ~timing THEN d0
            ELSE IF event.type = "Moving"
            THEN [d0 EXCEPT !.cursor = IF hit THEN "sizewe" ELSE "default"]
            ELSE IF event.type \in {"LeftDown", "RightDown"}
            THEN LET old_scroll_pos == d0.scroll_left
                     clicked == DisplayOnSelectionChanged(d0, sel, marker_ms)
                     d1 == ScrollPixelToLeft(clicked, old_scroll_pos)
                 IN IF hit
                    THEN FinishMouseEvent([RemoveTrackCursor(d1) EXCEPT !.audio_marker =
                                              IF event.type = "LeftDown" THEN "left" ELSE "right"],
                                          event, DRAGGING_AUDIO_MARKER, playing)
                    ELSE FinishMouseEvent(d1, event, d0.state, playing)
            ELSE FinishMouseEvent(d0, event, d0.state, playing)
       ELSE IF d0.state = DRAGGING_TIMELINE
       THEN FinishMouseEvent(JumpToTime(d0, event.x), event,
                             IF event.left_is_down THEN d0.state ELSE DRAGGING_IDLE, playing)
       ELSE LET r == MarkerObjectOnMouseEvent(d0, event, sel, marker_ms)
            IN IF r[2] THEN FinishMouseEvent(r[1], event, d0.state, playing)
               ELSE FinishMouseEvent([r[1] EXCEPT !.scroll_timer = FALSE,
                                                  !.cursor = "default"],
                                     event, DRAGGING_IDLE, playing)

\* AudioDisplay::AudioDisplay in a window of the given client width
DisplayConstruct(width, opt) ==
    SetZoomLevel([scroll_left |-> 0, pixel_audio_width |-> 0, zoom_level |-> 0,
                  mpp |-> <<0, 1>>, provider |-> FALSE, duration |-> 0,
                  client_width |-> width, track_cursor_pos |-> -1,
                  state |-> DRAGGING_IDLE, has_capture |-> FALSE,
                  audio_marker |-> "none", scroll_timer |-> FALSE,
                  connected |-> FALSE, skipped |-> FALSE,
                  cursor |-> "default", marker_dragged |-> FALSE, opt |-> opt], 0)

----------------------------------------------------------------------------
(* The AudioDisplay alone: the window system, the audio controller and the  *)
(* timing controller call its handlers in any order.                        *)

MaxViewOps == 3

ClientWidths == {100, 400}
Durations == {3000, 10000}
ZoomLevels == {-12, -3, 2}
ScrollTargets == {-50, 130, 5000}
ScrollAmounts == {-120, 60}
ViewTimes == {0, 9000}
ViewRanges == {[begin |-> 0, end |-> 0], [begin |-> 1000, end |-> 2000],
               [begin |-> 8000, end |-> 9500]}
ViewOptions ==
    {[auto_scroll |-> FALSE, lock_scroll |-> FALSE, smooth |-> FALSE],
     [auto_scroll |-> TRUE, lock_scroll |-> TRUE, smooth |-> FALSE],
     [auto_scroll |-> TRUE, lock_scroll |-> TRUE, smooth |-> TRUE]}
MouseX == 30
MouseEvents ==
    {e \in [type : {"Moving", "Dragging", "LeftDown", "LeftUp", "RightDown", "RightUp"},
            x : {MouseX}, where : {"timeline", "audio", "outside"},
            left_is_down : BOOLEAN, middle_is_down : BOOLEAN] :
        /\ e.type = "Moving" => ~e.left_is_down /\ ~e.middle_is_down
        /\ e.type = "LeftDown" => e.left_is_down
        /\ e.type \in {"LeftUp", "RightDown", "RightUp"} => ~e.left_is_down
        /\ e.middle_is_down => e.type \in {"Dragging", "LeftUp"}
        /\ e.where = "outside" => e.type \in {"Moving", "Dragging", "LeftUp", "RightUp"}}
\* what the timing controller answers: there is none, or its click handler
\* returned markers (hit) or none, and the range it announces
TimingResponses ==
    {[timing |-> FALSE, hit |-> FALSE, sel |-> [begin |-> 0, end |-> 0]]}
        \cup [timing : {TRUE}, hit : BOOLEAN, sel : ViewRanges]

ViewInit ==
    /\ display \in {DisplayConstruct(w, o) : w \in ClientWidths, o \in ViewOptions}
    /\ op = NoCall
    /\ nops = 0
    /\ events = <<>>
    /\ active_line = TimeableLine("style_left", "style_right")
    /\ sel_active = NoLine /\ sel_set = {} /\ selected_lines = <<>>
    /\ markers = <<>> /\ modified_lines = {} /\ commit_id = -1
    /\ clicked_ms = INT_MIN /\ commit_blocked = FALSE /\ auto_commit = FALSE
    /\ keyframes = {} /\ video_position = {} /\ undo = <<>> /\ dragged = <<>>
    /\ notified = <<>> /\ commits = <<>> /\ listened = FALSE /\ reverted = FALSE
    /\ snapped = 0
    /\ option = NoOption /\ budget = MaxViewOps

ViewRest ==
    <<events, active_line, sel_active, sel_set, selected_lines, markers,
      modified_lines, commit_id, clicked_ms, commit_blocked, auto_commit,
      keyframes, video_position, undo, dragged, notified, commits, listened,
      reverted, snapped, option, budget>>

\* one handler of the display has run and left d
ViewStep(d, call) ==
    /\ nops < budget
    /\ display' = d
    /\ op' = call
    /\ nops' = nops + 1
    /\ UNCHANGED ViewRest

\* ScrollPixelToLeft(target)
ViewScrollPixelToLeft ==
    \E target \in ScrollTargets :
        ViewStep(ScrollPixelToLeft(display, target),
                 [name |-> "ScrollPixelToLeft", target |-> target])

\* ScrollBy(amount)
ViewScrollBy ==
    \E amount \in ScrollAmounts :
        ViewStep(ScrollBy(display, amount), [name |-> "ScrollBy", amount |-> amount])

\* SetZoomLevel(level)
ViewSetZoomLevel ==
    \E level \in ZoomLevels :
        ViewStep(SetZoomLevel(display, level), [name |-> "SetZoomLevel", level |-> level])

\* OnAudioOpen(provider), provider null or with a duration
ViewOnAudioOpen ==
    \E has_provider \in BOOLEAN, duration \in Durations, r \in TimingResponses :
        /\ has_provider \/ (duration = 3000 /\ ~r.timing)
        /\ ViewStep(OnAudioOpen(display, has_provider, duration, r.timing, r.sel, r.sel.begin),
                    [name |-> "OnAudioOpen", provider |-> has_provider])

\* the window gets another client width: OnSize
ViewOnSize ==
    \E width \in ClientWidths :
        /\ width # display.client_width
        /\ ViewStep(OnSize(display, width),
                    [name |-> "OnSize", width |-> width, was |-> display])

\* OnPlaybackPosition(ms) from the audio controller
ViewOnPlaybackPosition ==
    \E ms \in ViewTimes :
        /\ display.connected
        /\ ViewStep(OnPlaybackPosition(display, ms),
                    [name |-> "OnPlaybackPosition", ms |-> ms])

\* the scroll timer fires: OnScrollTimer
ViewOnScrollTimer ==
    \E marker_ms \in ViewTimes :
        /\ display.scroll_timer
        /\ ViewStep(OnScrollTimer(display, marker_ms),
                    [name |-> "OnScrollTimer", marker_ms |-> marker_ms])

\* the timing controller announces a new primary range: OnSelectionChanged
ViewOnSelectionChanged ==
    \E sel \in ViewRanges :
        /\ display.connected
        /\ ViewStep(DisplayOnSelectionChanged(display, sel, sel.begin),
                    [name |-> "OnSelectionChanged", sel |-> sel, was |-> display])

\* a pointer event arrives: OnMouseEvent
ViewOnMouseEvent ==
    \E event \in MouseEvents, r \in TimingResponses, playing \in BOOLEAN :
        LET d == DisplayOnMouseEvent(display, event, r.timing, r.hit, r.sel,
                                     r.sel.begin, playing)
        IN ViewStep(d, [name |-> "OnMouseEvent", event |-> event,
                        handled |-> ~d.skipped, was |-> display])

\* the window system takes the mouse capture away
ViewCaptureLost ==
    /\ display.has_capture
    /\ ViewStep([display EXCEPT !.has_capture = FALSE], [name |-> "CaptureLost"])

ViewNext ==
    \/ ViewScrollPixelToLeft
    \/ ViewScrollBy
    \/ ViewSetZoomLevel
    \/ ViewOnAudioOpen
    \/ ViewOnSize
    \/ ViewOnPlaybackPosition
    \/ ViewOnScrollTimer
    \/ ViewOnSelectionChanged
    \/ ViewOnMouseEvent
    \/ ViewCaptureLost

SpecView == ViewInit /\ [][ViewNext]_vars

\* The display of an opened audio file: the same handlers, from the state
\* after AudioDisplay::AudioDisplay and OnAudioOpen of a provider of ten
\* seconds, in a window a hundred pixels wide.
MaxOpenedOps == 3

OpenedInit ==
    /\ display \in {OnAudioOpen(DisplayConstruct(100, o), TRUE, 10000,
                                 FALSE, [begin |-> 0, end |-> 0], 0) :
                         o \in ViewOptions}
    /\ op = NoCall
    /\ nops = 0
    /\ events = <<>>
    /\ active_line = TimeableLine("style_left", "style_right")
    /\ sel_active = NoLine /\ sel_set = {} /\ selected_lines = <<>>
    /\ markers = <<>> /\ modified_lines = {} /\ commit_id = -1
    /\ clicked_ms = INT_MIN /\ commit_blocked = FALSE /\ auto_commit = FALSE
    /\ keyframes = {} /\ video_position = {} /\ undo = <<>> /\ dragged = <<>>
    /\ notified = <<>> /\ commits = <<>> /\ listened = FALSE /\ reverted = FALSE
    /\ snapped = 0
    /\ option = NoOption /\ budget = MaxOpenedOps

SpecOpened == OpenedInit /\ [][ViewNext]_vars

\* ScrollTimeRangeInView as a function of the viewport and the range: the
\* display of an opened audio file at some zoom level and scroll position,
\* asked to bring ranges into view a few times in a row.
MaxScrollCalls == 3
MaxScrollStep == 30

ScrollPositions == {25 * k : k \in 0..MaxScrollStep}
ScrollRanges == {[begin |-> 1000, end |-> 2000], [begin |-> 8000, end |-> 9500],
                 [begin |-> 2000, end |-> 6000]}
ScrollViewports ==
    {ScrollPixelToLeft(
         SetZoomLevel(OnAudioOpen(DisplayConstruct(w, o), TRUE, duration,
                                  FALSE, [begin |-> 0, end |-> 0], 0), z), t) :
        w \in ClientWidths, o \in ViewOptions, duration \in Durations,
        z \in ZoomLevels, t \in ScrollPositions}

ScrollInit ==
    /\ display \in ScrollViewports
    /\ op = NoCall
    /\ nops = 0
    /\ events = <<>>
    /\ active_line = TimeableLine("style_left", "style_right")
    /\ sel_active = NoLine /\ sel_set = {} /\ selected_lines = <<>>
    /\ markers = <<>> /\ modified_lines = {} /\ commit_id = -1
    /\ clicked_ms = INT_MIN /\ commit_blocked = FALSE /\ auto_commit = FALSE
    /\ keyframes = {} /\ video_position = {} /\ undo = <<>> /\ dragged = <<>>
    /\ notified = <<>> /\ commits = <<>> /\ listened = FALSE /\ reverted = FALSE
    /\ snapped = 0
    /\ option = NoOption /\ budget = MaxScrollCalls

\* ScrollTimeRangeInView(range)
ViewScrollTimeRangeInView ==
    \E range \in ScrollRanges :
        ViewStep(ScrollTimeRangeInView(display, range),
                 [name |-> "ScrollTimeRangeInView", range |-> range, was |-> display])

SpecScroll == ScrollInit /\ [][ViewScrollTimeRangeInView]_vars

----------------------------------------------------------------------------
(* The zoom ladder and the scale of the timeline, as functions *)

\* the int a two's complement sum wraps to when it exceeds INT_MAX by e
WrapOver(e) == INT_MIN + (e - 1)

\* the largest level for which 100 + 25 * level is an int
LargestLevel == (INT_MAX - 100) \div 25

\* GetZoomLevelFactor(level) computed in int: what it returns, or that the
\* overflow was trapped; a signed overflow is undefined, and builds wrap it
\* or trap it
ZoomFactorResults(level) ==
    IF level > LargestLevel
    THEN {[ret |-> WrapOver(25 * (level - LargestLevel)
                            - (INT_MAX - 100 - 25 * LargestLevel)),
           trapped |-> FALSE],
          [ret |-> 0, trapped |-> TRUE]}
    ELSE {[ret |-> GetZoomLevelFactor(level), trapped |-> FALSE]}

\* a scale selector whose comparisons admit equality
ChangeZoomInclusive(mpp) ==
    LET n == mpp[1]
        k == 1000 * mpp[2]
    IN IF k >= 3000 * n
       THEN [scale_minor |-> "Sc_Millisecond", scale_minor_divisor |-> 1,
             scale_major_modulo |-> 10]
       ELSE IF k >= 300 * n
       THEN [scale_minor |-> "Sc_Centisecond", scale_minor_divisor |-> 10,
             scale_major_modulo |-> 10]
       ELSE IF k >= 30 * n
       THEN [scale_minor |-> "Sc_Decisecond", scale_minor_divisor |-> 100,
             scale_major_modulo |-> 10]
       ELSE IF k >= 3 * n
       THEN [scale_minor |-> "Sc_Second", scale_minor_divisor |-> 1000,
             scale_major_modulo |-> 10]
       ELSE IF 3 * k >= n
       THEN [scale_minor |-> "Sc_Decasecond", scale_minor_divisor |-> 10000,
             scale_major_modulo |-> 6]
       ELSE IF 9 * k >= n
       THEN [scale_minor |-> "Sc_Minute", scale_minor_divisor |-> 60000,
             scale_major_modulo |-> 10]
       ELSE IF 90 * k >= n
       THEN [scale_minor |-> "Sc_Decaminute", scale_minor_divisor |-> 600000,
             scale_major_modulo |-> 6]
       ELSE [scale_minor |-> "Sc_Hour", scale_minor_divisor |-> 3600000,
             scale_major_modulo |-> 10]

\* AudioDisplayTimeline::ChangeZoom: scale_minor, scale_minor_divisor and
\* scale_major_modulo for ms_per_pixel = mpp[1] / mpp[2]; px_sec > t is
\* 1000 * mpp[2] > t * mpp[1]
ChangeZoom(mpp) ==
    LET n == mpp[1]
        k == 1000 * mpp[2]
    IN IF k > 3000 * n
       THEN [scale_minor |-> "Sc_Millisecond", scale_minor_divisor |-> 1,
             scale_major_modulo |-> 10]
       ELSE IF k > 300 * n
       THEN [scale_minor |-> "Sc_Centisecond", scale_minor_divisor |-> 10,
             scale_major_modulo |-> 10]
       ELSE IF k > 30 * n
       THEN [scale_minor |-> "Sc_Decisecond", scale_minor_divisor |-> 100,
             scale_major_modulo |-> 10]
       ELSE IF k > 3 * n
       THEN [scale_minor |-> "Sc_Second", scale_minor_divisor |-> 1000,
             scale_major_modulo |-> 10]
       ELSE IF 3 * k > n
       THEN [scale_minor |-> "Sc_Decasecond", scale_minor_divisor |-> 10000,
             scale_major_modulo |-> 6]
       ELSE IF 9 * k > n
       THEN [scale_minor |-> "Sc_Minute", scale_minor_divisor |-> 60000,
             scale_major_modulo |-> 10]
       ELSE IF 90 * k > n
       THEN [scale_minor |-> "Sc_Decaminute", scale_minor_divisor |-> 600000,
             scale_major_modulo |-> 6]
       ELSE [scale_minor |-> "Sc_Hour", scale_minor_divisor |-> 3600000,
             scale_major_modulo |-> 10]

MaxLevel == 40
\* the largest level whose factor fits an int, and its neighbours
LargeLevels == {LargestLevel - 1, LargestLevel, LargestLevel + 1}
ScaleLevels == (-MaxLevel .. MaxLevel) \cup LargeLevels
\* values of ms_per_pixel, <<numerator, denominator>>
ScaleRatios ==
    {0, 1, 2, 10, 20, 100, 200, 1000, 2000, 3000, 5000, 9000, 10000, 90000, 100000}
        \X {1, 3, 7}

ScaleInit ==
    /\ op \in [name : {"level"}, level : ScaleLevels]
                \cup [name : {"ms_per_pixel"}, mpp : ScaleRatios]
    /\ nops = 0
    /\ display = NoDisplay /\ option = NoOption /\ budget = MaxOps
    /\ events = <<>>
    /\ active_line = TimeableLine("style_left", "style_right")
    /\ sel_active = NoLine /\ sel_set = {} /\ selected_lines = <<>>
    /\ markers = <<>> /\ modified_lines = {} /\ commit_id = -1
    /\ clicked_ms = INT_MIN /\ commit_blocked = FALSE /\ auto_commit = FALSE
    /\ keyframes = {} /\ video_position = {} /\ undo = <<>> /\ dragged = <<>>
    /\ notified = <<>> /\ commits = <<>> /\ listened = FALSE /\ reverted = FALSE
    /\ snapped = 0

\* GetZoomLevelFactor(level)
ScaleGetZoomLevelFactor ==
    /\ op.name = "level"
    /\ \E r \in ZoomFactorResults(op.level) :
        op' = [name |-> "GetZoomLevelFactor", level |-> op.level,
               ret |-> r.ret, trapped |-> r.trapped]
    /\ nops' = nops + 1
    /\ UNCHANGED <<display, ViewRest>>

\* ChangeZoom(ms_per_pixel)
ScaleChangeZoom ==
    /\ op.name = "ms_per_pixel"
    /\ op' = [name |-> "ChangeZoom", mpp |-> op.mpp, tier |-> ChangeZoom(op.mpp)]
    /\ nops' = nops + 1
    /\ UNCHANGED <<display, ViewRest>>

ScaleNext ==
    \/ ScaleGetZoomLevelFactor
    \/ ScaleChangeZoom

SpecScale == ScaleInit /\ [][ScaleNext]_vars

----------------------------------------------------------------------------
(* agi::OptionValue (libaegisub): an option o is a record of its name, its   *)
(* type, its value and its default value.  Values are written as strings so *)
(* that values of every type share one field.                               *)

OptionTypes == {"String", "Int", "Double", "Color", "Bool", "ListString",
                "ListInt", "ListDouble", "ListColor", "ListBool"}

\* OptionValue::TypeToString
TypeToString(type) ==
    CASE type = "String" -> "String"
      [] type = "Int" -> "Integer"
      [] type = "Double" -> "Double"
      [] type = "Color" -> "Color"
      [] type = "Bool" -> "Bool"
      [] type = "ListString" -> "List of Strings"
      [] type = "ListInt" -> "List of Integers"
      [] type = "ListDouble" -> "List of Doubles"
      [] type = "ListColor" -> "List of Colors"
      [] type = "ListBool" -> "List of Bools"

\* OptionValue::nullValueString, nullValueInt64, ... : what the getters of
\* the base class return
NullValue(type) ==
    CASE type = "String" -> "\"\""
      [] type = "Int" -> "0"
      [] type = "Double" -> "0.0"
      [] type = "Color" -> "Color()"
      [] type = "Bool" -> "false"
      [] OTHER -> "{}"

\* values an option of the type may hold
OptionValues(type) ==
    {NullValue(type)} \cup
    CASE type = "String" -> {"\"dialogue\""}
      [] type = "Int" -> {"50"}
      [] type = "Double" -> {"1.5"}
      [] type = "Color" -> {"Color(255,0,0)"}
      [] type = "Bool" -> {"true"}
      [] type = "ListString" -> {"{\"a\"}"}
      [] type = "ListInt" -> {"{1}"}
      [] type = "ListDouble" -> {"{1.5}"}
      [] type = "ListColor" -> {"{Color()}"}
      [] type = "ListBool" -> {"{true}"}

NoError == [what |-> "none"]

\* OptionValue::TypeError
TypeError(o, type) ==
    [what |-> "InternalError", option |-> o.name,
     expected |-> TypeToString(type), got |-> TypeToString(o.type)]

\* the result of a call: the option afterwards, the value returned, the
\* exception thrown, whether ValueChanged was signalled
OptionResult(o, ret, error, notified_change) ==
    [option |-> o, ret |-> ret, error |-> error, changed |-> notified_change]

\* OptionValue::GetString, GetInt, ..., GetListBool: the override of the
\* option's own class returns the value, the base class a null value
OptionGet(o, type) ==
    OptionResult(o, IF o.type = type THEN o.value ELSE NullValue(type), NoError, FALSE)

\* OptionValueString::SetValue, ...: store and NotifyChanged
OptionSetValue(o, new_val) ==
    OptionResult([o EXCEPT !.value = new_val], "void", NoError, TRUE)

\* OptionValue::SetString, SetInt, ..., SetListBool: As<T>(type)->SetValue(v)
OptionSetTyped(o, type, v) ==
    IF o.type = type THEN OptionSetValue(o, v)
    ELSE OptionResult(o, "void", TypeError(o, type), FALSE)

\* OptionValueString::Set, OptionValueInt::Set, ...: SetValue(nv->Get...())
OptionSet(o, nv) == OptionSetValue(o, OptionGet(nv, o.type).ret)

\* Reset
OptionReset(o) == OptionSetValue(o, o.value_default)

MaxOptionOps == 2
OptionNames == {"Audio/Snap/Distance"}
Options ==
    UNION {[name : OptionNames, type : {t}, value : OptionValues(t),
            value_default : OptionValues(t)] : t \in OptionTypes}

OptionInit ==
    /\ option \in {o \in Options : o.value = o.value_default}
    /\ op = NoCall
    /\ nops = 0 /\ budget = MaxOptionOps
    /\ display = NoDisplay
    /\ events = <<>>
    /\ active_line = TimeableLine("style_left", "style_right")
    /\ sel_active = NoLine /\ sel_set = {} /\ selected_lines = <<>>
    /\ markers = <<>> /\ modified_lines = {} /\ commit_id = -1
    /\ clicked_ms = INT_MIN /\ commit_blocked = FALSE /\ auto_commit = FALSE
    /\ keyframes = {} /\ video_position = {} /\ undo = <<>> /\ dragged = <<>>
    /\ notified = <<>> /\ commits = <<>> /\ listened = FALSE /\ reverted = FALSE
    /\ snapped = 0

OptionRest ==
    <<events, active_line, sel_active, sel_set, selected_lines, markers,
      modified_lines, commit_id, clicked_ms, commit_blocked, auto_commit,
      keyframes, video_position, undo, dragged, notified, commits, listened,
      reverted, snapped, display, budget>>

\* one call on the option returned r; as is the type the caller used
OptionStep(call, as, r) ==
    /\ nops < MaxOptionOps
    /\ option' = r.option
    /\ op' = [name |-> call, as |-> as, was |-> option, ret |-> r.ret,
              error |-> r.error, changed |-> r.changed]
    /\ nops' = nops + 1
    /\ UNCHANGED OptionRest

\* GetString(), GetInt(), ...
OptionDoGet ==
    \E type \in OptionTypes : OptionStep("Get", type, OptionGet(option, type))

\* SetString(v), SetInt(v), ...
OptionDoSetTyped ==
    \E type \in OptionTypes : \E v \in OptionValues(type) :
        OptionStep("SetTyped", type, OptionSetTyped(option, type, v))

\* Set(nv)
OptionDoSet ==
    \E nv \in Options : OptionStep("Set", nv.type, OptionSet(option, nv))

\* Reset()
OptionDoReset == OptionStep("Reset", option.type, OptionReset(option))

OptionNext ==
    \/ OptionDoGet
    \/ OptionDoSetTyped
    \/ OptionDoSet
    \/ OptionDoReset

SpecOption == OptionInit /\ [][OptionNext]_vars

----------------------------------------------------------------------------
(* What the properties below speak of *)

PositionNow(m) == Position(Cur, m)
MarkerRefs == (0..MaxLines) \X {1, 2}
Held(ms, m) == \E i \in 1..Len(ms) : ms[i] = m
IndexPositions == PositionsOf(Cur, markers)
TrackedLines == <<active_line>> \o selected_lines
LineOrdered(t) == GetLeftMarker(t).position <= GetRightMarker(t).position

\* the last handler ran SetMarkers on a non-empty marker list
SetMarkersOps == {"OnLeftClick", "OnMarkerDrag", "AddLeadIn", "AddLeadOut",
                  "ModifyLength", "ModifyStart"}
RanSetMarkers == op.name \in SetMarkersOps /\ op.upd # <<>> /\ notified # <<>>

\* the last handler ran DoCommit
RanDoCommit == op.name = "Commit" \/ (RanSetMarkers /\ auto_commit)

----------------------------------------------------------------------------
\* C1: in every reachable state every TimeableLine, the active one and each
\* companion, has its left marker at or before its right marker.
C1_LeftBeforeRight ==
    \A i \in 1..Len(TrackedLines) : LineOrdered(TrackedLines[i])

\* C1 witness: a drag has carried the active line's first marker past the
\* second, so the indirections are exchanged, with the line still ordered.
C1_Witness ==
    /\ op.name = "OnMarkerDrag"
    /\ active_line.left_marker = 2
    /\ GetLeftMarker(active_line).position < GetRightMarker(active_line).position

\* C2: when SetMarkers has emitted its notifications and returned, the marker
\* index is sorted by non-decreasing position.
C2_SortedAfterSetMarkers ==
    RanSetMarkers => IsSortedSeq(IndexPositions)

\* C3: every notification a handler emits finds the marker index sorted.
C3_NotifiedWhenSorted ==
    \A i \in 1..Len(notified) : notified[i].sorted

\* C4: no marker position and no time of the document is ever negative.
C4_NonNegative ==
    /\ \A i \in 1..Len(TrackedLines) :
        TrackedLines[i].marker1.position >= 0 /\ TrackedLines[i].marker2.position >= 0
    /\ \A l \in 1..Len(events) : events[l].Start >= 0 /\ events[l].End >= 0

\* C5: an alt-click at c sets clicked_ms = c and returns the two markers of
\* the active line and of every companion without moving any; a drag to ms
\* of the markers so held moves each of them by ms - clicked_ms plus the
\* distance SnapMarkers returned, which is within snap_range, and leaves
\* clicked_ms = ms + that distance. With lines [1000,2000] and [1100,1900],
\* a keyframe at 980 and a click at 1500, the drag to 1520 with snap range 50
\* ends with the markers at 980, 1980, 1080, 1880 and clicked_ms = 1480.
C5_GroupDrag ==
    [][/\ (nops' # nops /\ op'.name = "OnLeftClickAlt") =>
            /\ clicked_ms' = op'.ms
            /\ dragged' = AllMarkers(Cur)
            /\ Len(dragged') = 2 + 2 * Len(selected_lines)
            /\ \A m \in MarkerRefs : Held(AllMarkers(Cur), m) =>
                PositionNow(m)' = PositionNow(m)
       /\ (nops' # nops /\ op'.name = "OnMarkerDrag" /\ clicked_ms # INT_MIN) =>
            /\ \A m \in MarkerRefs : Held(dragged, m) =>
                PositionNow(m)' = PositionNow(m) + (op'.ms - clicked_ms) + snapped'
            /\ tabs(snapped') <= op'.snap_range
            /\ clicked_ms' = op'.ms + snapped'
       /\ (/\ nops' # nops
           /\ op'.name = "OnMarkerDrag" /\ op'.ms = 1520 /\ op'.snap_range = 50
           /\ clicked_ms = 1500 /\ keyframes = {980} /\ video_position = {}
           /\ dragged = <<<<0, 1>>, <<0, 2>>, <<1, 1>>, <<1, 2>>>>
           /\ [i \in 1..4 |-> PositionNow(dragged[i])] = <<1000, 2000, 1100, 1900>>) =>
            /\ PositionNow(<<0, 1>>)' = 980 /\ PositionNow(<<0, 2>>)' = 1980
            /\ PositionNow(<<1, 1>>)' = 1080 /\ PositionNow(<<1, 2>>)' = 1880
            /\ snapped' = -40
            /\ clicked_ms' = 1480]_vars

\* C5 witness: the group drag of the example has happened.
C5_Witness ==
    /\ op.name = "OnMarkerDrag" /\ op.ms = 1520 /\ op.snap_range = 50
    /\ Len(dragged) = 4
    /\ [i \in 1..4 |-> PositionNow(dragged[i])] = <<980, 1980, 1080, 1880>>
    /\ snapped = -40
    /\ clicked_ms = 1480

\* C6: a drag with snap_range > 0 is deflected by the signed distance c - p
\* of smallest magnitude over the dragged positions p and the candidates c
\* (keyframes, video position, tracked markers that are not dragged) within
\* snap_range of p, and by 0 when there is no such candidate.
C6_SnapsToNearest ==
    (RanSetMarkers /\ op.snap_range > 0) =>
        LET P == {PositionNow(op.upd[i]) - snapped : i \in 1..Len(op.upd)}
            others == SeqRange(AllMarkers(Cur)) \ SeqRange(op.upd)
            Cand == keyframes \cup video_position \cup {PositionNow(m) : m \in others}
            D == {x[1] - x[2] : x \in {y \in Cand \X P : tabs(y[1] - y[2]) <= op.snap_range}}
        IN /\ tabs(snapped) <= op.snap_range
           /\ IF D = {} THEN snapped = 0
              ELSE snapped \in D /\ \A d \in D : tabs(snapped) <= tabs(d)

\* the commit_id the next auto-commit is to offer: what the last auto-commit
\* returned, -1 after a Revert or a manual commit
ChainedCommitId ==
    IF RanSetMarkers /\ auto_commit /\ commits # <<>> THEN commits[Len(commits)].ret
    ELSE IF op.name = "Commit" \/ reverted THEN -1
    ELSE commit_id

\* the line of a member of modified_lines
LineOfRef(x) == IF x.freed THEN x.line ELSE TLof(Cur, x.tl).line

\* C7: with auto-commit on, each SetMarkers issues exactly one commit of
\* type timing, offering the id the previous auto-commit returned (-1 if
\* there was none since the last Revert or manual commit) and, iff exactly
\* one line is modified, that line as amend target; the returned id becomes
\* commit_id.
C7_AutoCommitChain ==
    [][(nops' # nops /\ auto_commit /\ RanSetMarkers') =>
        LET modified == modified_lines \cup {LiveRef(op'.upd[i][1]) : i \in 1..Len(op'.upd)}
        IN /\ Len(commits') = 1
           /\ commits'[1].type = {COMMIT_DIAG_TIME}
           /\ commits'[1].amend = IF Cardinality(modified) = 1
                                  THEN LineOfRef(CHOOSE x \in modified : TRUE)
                                  ELSE NoLine
           /\ commit_id' = commits'[1].ret
           /\ commits'[1].commit_id = ChainedCommitId]_vars

\* C8: a manual commit between two auto-committed drags leaves commit_id = -1,
\* so the commit of the second drag is offered -1 and is not merged into the
\* undo step of the first.
C8_ManualCommitEndsChain ==
    [][(nops' # nops /\ auto_commit /\ op.name = "Commit" /\ RanSetMarkers'
        /\ commits' # <<>>) =>
        /\ commit_id = -1
        /\ commits'[1].commit_id = -1
        /\ ~commits'[1].coalesced]_vars

\* C9: when DoCommit has returned, called by Commit() or by SetMarkers under
\* auto-commit, modified_lines is empty.
C9_ModifiedLinesEmpty ==
    RanDoCommit => modified_lines = {}

\* C9 witness: a manual commit that had lines to write has returned.
C9_Witness ==
    op.name = "Commit" /\ commits # <<>> /\ modified_lines = {}

ExternalCommits == {"ExternalCommitTime", "ExternalCommitAddRem", "ExternalCommitText"}

\* C10: a commit issued by DoCommit does not reach the controller's own
\* commit listener, so no Revert runs and the commit_id just stored stays;
\* the listener is unblocked when DoCommit has returned, and a later commit
\* from elsewhere is observed (and, if it changes times, reverts).
C10_OwnCommitNotObserved ==
    /\ commit_blocked = FALSE
    /\ (RanDoCommit /\ commits # <<>>) =>
        /\ ~listened
        /\ ~reverted
        /\ op.name # "Commit" => commit_id = commits[Len(commits)].ret
    /\ op.name \in ExternalCommits => listened
    /\ op.name = "ExternalCommitTime" => reverted /\ commit_id = -1

\* C10 witness: a drag has auto-committed and the listener did not run.
C10_Witness ==
    /\ op.name = "OnMarkerDrag" /\ commits # <<>>
    /\ ~listened /\ ~reverted
    /\ commit_id = commits[1].ret
    /\ commit_blocked = FALSE

\* Apply() was called right after SetLine()
AppliedAfterSetLine == op.name = "Apply" /\ op.after.name = "SetLine"

\* C11 as stated: SetLine(L) followed at once by Apply() leaves L.Start and
\* L.End as they were if and only if L.End > 0.
C11_RoundTripIffEndPositive ==
    AppliedAfterSetLine =>
        (events[op.after.line] = op.after.before <=> op.after.before.End > 0)

\* C11 amended: for a line L with L.Start <= L.End, SetLine(L) followed at
\* once by Apply() leaves L as it was if L.End > 0 or no line was tracked
\* before; otherwise (a line was tracked and L.End = 0) L gets the positions
\* the left and right markers had before the call.
C11_RoundTrip ==
    AppliedAfterSetLine =>
        LET s == op.after
        IN /\ s.ret = (s.before.End > 0 \/ ~s.bound)
           /\ IF s.before.End > 0 \/ ~s.bound
              THEN events[s.line] = s.before
              ELSE events[s.line] = [Start |-> s.left, End |-> s.right]

\* C11 witness: a line that tracked another one was given a line ending at 0
\* while its markers stood elsewhere, and wrote its markers to that line.
C11_Witness ==
    /\ AppliedAfterSetLine
    /\ op.after.bound /\ op.after.before.End = 0
    /\ events[op.after.line] # op.after.before
    /\ events[op.after.line] = [Start |-> op.after.left, End |-> op.after.right]

\* the line of op.was with the position of the moved marker assigned and
\* CheckMarkers not yet run
MovedUnchecked ==
    IF op.marker = 1 THEN [op.was EXCEPT !.marker1.position = op.position]
    ELSE [op.was EXCEPT !.marker2.position = op.position]

\* C12: a move of one marker that leaves the right position smaller than the
\* left one exchanges the style and the foot of the two physical markers and
\* exchanges left_marker and right_marker (any other move changes none of
\* them); each physical marker keeps its position and its line.  Hence the
\* marker designated left always has the start style and the right-facing
\* foot, the marker designated right the end style and the left-facing
\* foot.  With left = 1000, right = 2000 and the left marker moved to 2500:
\* left is marker2 at 2000, right is marker1 at 2500.
C12_SwapOnCrossing ==
    /\ GetLeftMarker(active_line).style = "style_left"
    /\ GetLeftMarker(active_line).feet = Feet_Right
    /\ GetRightMarker(active_line).style = "style_right"
    /\ GetRightMarker(active_line).feet = Feet_Left
    /\ op.name = "SetPosition" =>
        LET u == MovedUnchecked
            crossed == GetRightMarker(u).position < GetLeftMarker(u).position
        IN /\ active_line.marker1.position = u.marker1.position
           /\ active_line.marker2.position = u.marker2.position
           /\ active_line.line = u.line
           /\ IF crossed
              THEN /\ active_line.left_marker = u.right_marker
                   /\ active_line.right_marker = u.left_marker
                   /\ active_line.marker1.style = u.marker2.style
                   /\ active_line.marker1.feet = u.marker2.feet
                   /\ active_line.marker2.style = u.marker1.style
                   /\ active_line.marker2.feet = u.marker1.feet
              ELSE active_line = u
    /\ (/\ op.name = "SetPosition"
        /\ op.was.marker1.position = 1000 /\ op.was.marker2.position = 2000
        /\ op.was.left_marker = 1
        /\ op.marker = 1 /\ op.position = 2500) =>
        /\ active_line.left_marker = 2 /\ active_line.right_marker = 1
        /\ GetLeftMarker(active_line).position = 2000
        /\ GetRightMarker(active_line).position = 2500

\* C12 witness: the left marker of a line at 1000..2000 was moved to 2500 and
\* the markers exchanged their roles.
C12_Witness ==
    /\ op.name = "SetPosition"
    /\ op.was.marker1.position = 1000 /\ op.was.marker2.position = 2000
    /\ op.was.left_marker = 1 /\ op.marker = 1 /\ op.position = 2500
    /\ active_line.left_marker = 2
    /\ active_line.marker1 = DialogueTimingMarker(2500, "style_right", Feet_Left)
    /\ active_line.marker2 = DialogueTimingMarker(2000, "style_left", Feet_Right)

\* handlers in which nothing follows the Revert of an active-line change
\* but the rebuilding of the companions and of the index
LineChangeOps == {"ExternalSelect", "Prev", "TIMING_UNIT", "OnLeftClick"}

\* C13: when the active line changes, Revert leaves commit_id = -1 and the
\* active TimeableLine tracking the new active line; if no line was tracked
\* before or the new line ends after 0 the markers are at the new line's
\* times and modified_lines is empty, otherwise the markers are where they
\* were and modified_lines holds just the active line, and a commit issued
\* next writes those positions to the new line.
C13_RevertOnLineChange ==
    [][/\ (nops' # nops /\ sel_active' # sel_active /\ sel_active' # NoLine
           /\ op'.name \in LineChangeOps) =>
            /\ reverted'
            /\ commit_id' = -1
            /\ active_line'.line = sel_active'
            /\ IF active_line.line = NoLine \/ events'[sel_active'].End > 0
               THEN /\ GetLeftMarker(active_line).position' = events'[sel_active'].Start
                    /\ GetRightMarker(active_line).position' = events'[sel_active'].End
                    /\ modified_lines' = {}
               ELSE /\ GetLeftMarker(active_line).position' = GetLeftMarker(active_line).position
                    /\ GetRightMarker(active_line).position' = GetRightMarker(active_line).position
                    /\ modified_lines' = {LiveRef(0)}
       /\ (nops' # nops /\ op.name \in LineChangeOps /\ reverted
           /\ modified_lines = {LiveRef(0)} /\ op'.name = "Commit") =>
            /\ Len(commits') = 1
            /\ events'[active_line.line] = [Start |-> GetLeftMarker(active_line).position,
                                           End |-> GetRightMarker(active_line).position]
            /\ modified_lines' = {}]_vars

\* C13 witness: the active line changed to a line ending at 0, the markers
\* stayed away from that line's times and the active line awaits a commit.
C13_Witness ==
    /\ op.name \in LineChangeOps /\ reverted
    /\ active_line.line = sel_active /\ sel_active # NoLine
    /\ events[sel_active].End = 0
    /\ GetRightMarker(active_line).position > 0
    /\ modified_lines = {LiveRef(0)}
    /\ commit_id = -1

\* C14: in every reachable viewport state, after any sequence of scroll,
\* scroll-by, zoom, audio-open, client-resize, playback-follow and
\* scroll-timer events, 0 <= scroll_left <= max(0, pixel_audio_width -
\* client_width).
C14_ScrollWithinRange ==
    display # NoDisplay =>
        /\ 0 <= display.scroll_left
        /\ display.scroll_left
               <= Max2(0, display.pixel_audio_width - display.client_width)


\* C15: after every pointer event the display has handled, the mouse capture
\* is held if and only if the interaction state is not idle, whatever
\* pointer events and losses of the capture came before.
C15_CaptureIffNotIdle ==
    (op.name = "OnMouseEvent" /\ op.handled) =>
        (display.has_capture <=> display.state # DRAGGING_IDLE)

\* a pointer event arrived in a drag whose capture had been taken away, and
\* the display went back to idle
C15_Witness ==
    /\ op.name = "OnMouseEvent" /\ op.handled
    /\ op.was.state # DRAGGING_IDLE /\ ~op.was.has_capture
    /\ display.state = DRAGGING_IDLE /\ ~display.has_capture

\* the active line was put into modified_lines by the step, and a commit of
\* the step itself (auto-commit) may have taken it out again
MarkedModified ==
    \/ LiveRef(0) \in modified_lines'
    \/ auto_commit /\ commits' # <<>>

\* C16: from any reachable state, AddLeadIn moves the left marker of the
\* active line to exactly left - lead-in and AddLeadOut moves the right
\* marker to exactly right + lead-out, the other marker stays where it was
\* and the active line is put into modified_lines.
C16_LeadInOut ==
    [][nops' # nops =>
        /\ op'.name = "AddLeadIn" =>
            /\ GetLeftMarker(active_line').position
                   = GetLeftMarker(active_line).position - LeadIn
            /\ GetRightMarker(active_line').position
                   = GetRightMarker(active_line).position
            /\ MarkedModified
        /\ op'.name = "AddLeadOut" =>
            /\ GetRightMarker(active_line').position
                   = GetRightMarker(active_line).position + LeadOut
            /\ GetLeftMarker(active_line').position
                   = GetLeftMarker(active_line).position
            /\ MarkedModified]_vars

\* C17: from any reachable state, ModifyLength(delta) puts the right marker
\* of the active line at max(right + 10 * delta, left) and ModifyStart(delta)
\* puts the left marker at min(left + 10 * delta, right); the other marker
\* stays where it was and left and right are not swapped.
C17_ModifyLengthStart ==
    [][nops' # nops =>
        /\ op'.name = "ModifyLength" =>
            /\ GetRightMarker(active_line').position
                   = Max2(GetRightMarker(active_line).position + 10 * op'.ms,
                          GetLeftMarker(active_line).position)
            /\ GetLeftMarker(active_line').position
                   = GetLeftMarker(active_line).position
            /\ active_line'.left_marker = active_line.left_marker
        /\ op'.name = "ModifyStart" =>
            /\ GetLeftMarker(active_line').position
                   = Min2(GetLeftMarker(active_line).position + 10 * op'.ms,
                          GetRightMarker(active_line).position)
            /\ GetRightMarker(active_line').position
                   = GetRightMarker(active_line).position
            /\ active_line'.left_marker = active_line.left_marker]_vars

\* C18: Next(LINE_RESET_DEFAULT), and Next(LINE) when the line it arrives at
\* has End = 0, leaves the active line with its left marker at the end of
\* the previous active line and its right marker that far plus the default
\* duration, with the active line in modified_lines and the index sorted,
\* whatever times the line arrived at carried.
C18_NextResetsToDefault ==
    [][(/\ nops' # nops
        /\ \/ op'.name = "LINE_RESET_DEFAULT"
           \/ op'.name = "LINE" /\ events'[active_line'.line].End = 0) =>
        /\ GetLeftMarker(active_line').position
               = GetRightMarker(active_line).position
        /\ GetRightMarker(active_line').position
               = GetRightMarker(active_line).position + DefaultDuration
        /\ LiveRef(0) \in modified_lines'
        /\ IsSortedSeq(IndexPositions')]_vars

\* the factor the zoom ladder is stated to give
LadderFactor(level) ==
    IF level >= 0 THEN 100 + 25 * level
    ELSE IF level >= -5 THEN 100 + 10 * level
    ELSE IF level >= -11 THEN 50 + (level + 5) * 5
    ELSE Max2(1, 20 + level + 11)

\* C19: GetZoomLevelFactor(level) is 100 + 25 * level for level >= 0,
\* 100 + 10 * level for -5 <= level < 0, 50 + (level + 5) * 5 for
\* -11 <= level < -5 and max(1, 20 + level + 11) below; 0 gives 100, 4 gives
\* 200, -3 gives 70, -8 gives 35, -15 gives 16, and the factor is at least 1
\* for every level.  Above LargestLevel the stated factor exceeds INT_MAX.
C19_ZoomLadder ==
    op.name = "GetZoomLevelFactor" =>
        /\ ~op.trapped
        /\ op.level <= LargestLevel => op.ret = LadderFactor(op.level)
        /\ op.level > LargestLevel => op.ret > INT_MAX
        /\ op.ret >= 1
        /\ op.level = 0 => op.ret = 100
        /\ op.level = 4 => op.ret = 200
        /\ op.level = -3 => op.ret = 70
        /\ op.level = -8 => op.ret = 35
        /\ op.level = -15 => op.ret = 16

\* the rows of the scale table: px_per_sec must exceed threshold[1] /
\* threshold[2]
ScaleTable ==
    <<[threshold |-> <<3000, 1>>, divisor |-> 1, modulo |-> 10],
      [threshold |-> <<300, 1>>, divisor |-> 10, modulo |-> 10],
      [threshold |-> <<30, 1>>, divisor |-> 100, modulo |-> 10],
      [threshold |-> <<3, 1>>, divisor |-> 1000, modulo |-> 10],
      [threshold |-> <<1, 3>>, divisor |-> 10000, modulo |-> 6],
      [threshold |-> <<1, 9>>, divisor |-> 60000, modulo |-> 10],
      [threshold |-> <<1, 90>>, divisor |-> 600000, modulo |-> 6]>>
HourRow == [divisor |-> 3600000, modulo |-> 10]

\* px_per_sec = 1000 / ms_per_pixel exceeds the threshold of row i
RowHolds(mpp, i) ==
    1000 * mpp[2] * ScaleTable[i].threshold[2] > ScaleTable[i].threshold[1] * mpp[1]

\* C20: for every ms_per_pixel the scale selector gives the divisor and the
\* major modulo of the first row of the table whose condition px_per_sec >
\* threshold holds, and those of the hour row when none holds.
C20_FirstRowThatHolds ==
    op.name = "ChangeZoom" =>
        LET holding == {i \in 1..Len(ScaleTable) : RowHolds(op.mpp, i)}
            row == IF holding = {} THEN HourRow
                   ELSE ScaleTable[CHOOSE i \in holding : \A j \in holding : i <= j]
        IN /\ op.tier.scale_minor_divisor = row.divisor
           /\ op.tier.scale_major_modulo = row.modulo

\* ms_per_pixel = 3000, px_per_sec exactly 1/3: the row of 1/3 does not hold
\* and the minute row is chosen
C20_Witness ==
    /\ op.name = "ChangeZoom" /\ op.mpp = <<3000, 1>>
    /\ op.tier.scale_minor_divisor = 60000

\* px_per_sec = 1000 / ms_per_pixel lies in (1/90, 1/9]
InMinuteInterval(mpp) ==
    /\ 90 * 1000 * mpp[2] > mpp[1]
    /\ 9 * 1000 * mpp[2] <= mpp[1]

\* C21, as stated: for ms_per_pixel = 10000 and for every px_per_sec in
\* (1/90, 1/9] the scale selector chooses minutes, divisor 60000, major
\* modulo 10.
C21_MinuteTier ==
    (op.name = "ChangeZoom" /\ InMinuteInterval(op.mpp)) =>
        /\ op.tier.scale_minor = "Sc_Minute"
        /\ op.tier.scale_minor_divisor = 60000
        /\ op.tier.scale_major_modulo = 10

\* C21, amended: for ms_per_pixel = 10000 and for every px_per_sec in
\* (1/90, 1/9] the scale selector chooses tens of minutes, divisor 600000,
\* major modulo 6.
C21_DecaminuteTier ==
    (op.name = "ChangeZoom" /\ InMinuteInterval(op.mpp)) =>
        /\ op.tier.scale_minor = "Sc_Decaminute"
        /\ op.tier.scale_minor_divisor = 600000
        /\ op.tier.scale_major_modulo = 6

\* ms_per_pixel = 10000, px_per_sec = 0.1
C21_Witness ==
    /\ op.name = "ChangeZoom" /\ op.mpp = <<10000, 1>>
    /\ op.tier.scale_minor_divisor = 600000

\* C22: an access to an option as a type other than its own - a getter, a
\* typed setter, or Set() from an option of another type - throws an
\* internal error carrying the option's name, the expected type and the
\* actual type, leaves the stored value unchanged and signals no change.
C22_TypeMismatchFailsFast ==
    (op.name \in {"Get", "SetTyped", "Set"} /\ op.as # op.was.type) =>
        /\ op.error = TypeError(op.was, op.as)
        /\ option = op.was
        /\ ~op.changed

\* C23: SetMarkers with an empty marker list returns at once: no marker
\* position, clicked_ms, member of modified_lines, commit_id or order of the
\* index changes, no commit is issued even with auto-commit on, and no
\* notification is emitted.
C23_EmptySetMarkers ==
    [][(nops' # nops /\ op'.name = "OnMarkerDragEmpty") =>
        /\ active_line' = active_line
        /\ selected_lines' = selected_lines
        /\ clicked_ms' = clicked_ms
        /\ modified_lines' = modified_lines
        /\ commit_id' = commit_id
        /\ markers' = markers
        /\ events' = events /\ undo' = undo
        /\ commits' = <<>>
        /\ notified' = <<>>]_vars

\* the empty call came with auto-commit on and a modified line waiting
C23_Witness ==
    /\ op.name = "OnMarkerDragEmpty"
    /\ auto_commit /\ modified_lines # {}

\* C24: every member of modified_lines refers to a TimeableLine that is
\* tracked now, the active line or a companion in selected_lines; none
\* refers to a companion that a rebuild of selected_lines has destroyed.
C24_ModifiedLinesLive ==
    \A x \in modified_lines : ~x.freed /\ x.tl <= Len(selected_lines)

\* C25: clicked_ms is INT_MIN whenever no drag started with Alt is in
\* progress: right after construction and once the button of the drag is
\* released, so that a later SetMarkers takes its target as a position.
C25_ClickedMsOnlyInAltDrag ==
    clicked_ms # INT_MIN => dragged # <<>>

\* the members of modified_lines a handler that ran SetMarkers on op'.upd
\* hands to DoCommit: those left by earlier handlers and the lines it moved
ModifiedAtCommit ==
    modified_lines \cup {LiveRef(op'.upd[i][1]) : i \in 1..Len(op'.upd)}

\* the subtitle lines tracked by the live members of a set of references
LinesWritten(M) ==
    {TrackedLines[x.tl + 1].line : x \in {y \in M : ~y.freed}} \ {NoLine}

\* C26: after DoCommit every line that was in modified_lines has its
\* document start at its left marker and its document end at its right
\* marker; a TimeableLine bound to no subtitle line is skipped, and the lines
\* that were not in modified_lines are not written.
C26_CommitWritesModified ==
    [][(nops' # nops /\ RanDoCommit') =>
        /\ \A x \in ModifiedAtCommit :
            ~x.freed =>
                LET t == TrackedLines'[x.tl + 1]
                IN t.line # NoLine =>
                    /\ events'[t.line].Start = GetLeftMarker(t).position
                    /\ events'[t.line].End = GetRightMarker(t).position
                    /\ events'[t.line].Start <= events'[t.line].End
        /\ Len(events') = Len(events)
        /\ \A l \in 1..Len(events) :
            l \notin LinesWritten(ModifiedAtCommit) => events'[l] = events[l]]_vars

\* the handlers that reach SetMarkers or stop short of it: clicks, drags,
\* AddLeadIn/Out, ModifyLength/Start
TimingEditOps == SetMarkersOps \cup {"OnLeftClickAlt", "OnMarkerDragEmpty"}

\* the times a member of modified_lines holds for its subtitle line
TimesOfRef(x) ==
    IF x.freed THEN [Start |-> x.Start, End |-> x.End]
    ELSE [Start |-> GetLeftMarker(TrackedLines[x.tl + 1]).position,
          End |-> GetRightMarker(TrackedLines[x.tl + 1]).position]

\* C27: with auto-commit off a click, a drag, AddLeadIn/Out or
\* ModifyLength/Start changes no line's start or end in the document and
\* issues no commit; Commit() then writes every line modified since the last
\* commit or Revert, in one commit.
C27_DeferredCommit ==
    [][(nops' # nops /\ ~auto_commit) =>
        /\ op'.name \in TimingEditOps =>
            /\ commits' = <<>>
            /\ \A l \in 1..Len(events) :
                l <= Len(events') /\ events'[l] = events[l]
        /\ (op'.name = "Commit" /\ modified_lines # {}) =>
            /\ Len(commits') = 1
            /\ \A x \in modified_lines :
                LineOfRef(x) # NoLine => events'[LineOfRef(x)] = TimesOfRef(x)]_vars

\* the controller as SnapMarkers finds it in a drag of the held markers to
\* ms: SetMarkers has moved them
MovedByDrag(ms) ==
    LET shift == IF clicked_ms # INT_MIN THEN ms - clicked_ms ELSE 0
        c1 == IF shift # 0 THEN [Cur EXCEPT !.clicked_ms = ms] ELSE Cur
    IN UpdateMarkers(c1, dragged, ms, shift)

\* positions of the tracked markers that are not held
PositionsNotHeld(c) ==
    {Position(c, m) : m \in SeqRange(AllMarkers(c)) \ SeqRange(dragged)}

\* C28: the snap candidates taken from the tracked markers never include a
\* marker that is being dragged, and in a group drag (clicked_ms set) include
\* no dialogue marker at all, so that a snap then lands a dragged marker on a
\* keyframe or on the video position.
C28_SnapCandidates ==
    /\ dragged # <<>> =>
        \A in \in {d \in DragInputs : d[2] > 0} :
            LET c == MovedByDrag(in[1])
                inactive == InactiveMarkers(c, in[2], dragged)
            IN /\ SeqRange(inactive) \subseteq PositionsNotHeld(c)
               /\ clicked_ms # INT_MIN => inactive = <<>>
    /\ (RanSetMarkers /\ snapped # 0) =>
        \E i \in 1..Len(op.upd) :
            PositionNow(op.upd[i]) \in
                keyframes \cup video_position \cup
                (IF clicked_ms = INT_MIN
                 THEN {PositionNow(m) : m \in SeqRange(AllMarkers(Cur)) \ SeqRange(op.upd)}
                 ELSE {})

\* C28 witness: a plain drag of one marker has snapped onto a marker that is
\* not dragged, and a group drag has snapped onto a keyframe.
C28_Witness ==
    /\ op.name = "OnMarkerDrag" /\ snapped # 0 /\ dragged # <<>>
    /\ \/ /\ clicked_ms = INT_MIN
          /\ \E i \in 1..Len(dragged) :
              /\ PositionNow(dragged[i]) \in PositionsNotHeld(Cur)
              /\ PositionNow(dragged[i]) \notin keyframes \cup video_position
       \/ /\ clicked_ms # INT_MIN
          /\ \E i \in 1..Len(dragged) : PositionNow(dragged[i]) \in keyframes

\* the places in TrackedLines of the lines with both markers held
LinesHeld == {i \in 1..Len(TrackedLines) :
              Held(dragged, <<i - 1, 1>>) /\ Held(dragged, <<i - 1, 2>>)}

CompanionLines == [i \in 1..Len(selected_lines) |-> selected_lines[i].line]

\* C30: between handlers the marker index holds exactly the two markers of
\* the active line and the two markers of each companion, each once; the
\* companions are the selected lines other than the active line, one
\* TimeableLine each, and none of them tracks the active line.
C30_IndexAndCompanions ==
    /\ Len(markers) = 2 + 2 * Len(selected_lines)
    /\ \A m \in SeqRange(AllMarkers(Cur)) :
        Cardinality({i \in 1..Len(markers) : markers[i] = m}) = 1
    /\ SeqRange(CompanionLines) = sel_set \ {sel_active}
    /\ Len(selected_lines) = Cardinality(sel_set \ {sel_active})
    /\ \A i \in 1..Len(selected_lines) : selected_lines[i].line # sel_active

\* C30 witness: the user has selected two lines, the active line among them,
\* and the controller has one companion and four markers in the index.
C30_Witness ==
    /\ op.name = "ExternalSelect"
    /\ sel_active \in sel_set /\ Cardinality(sel_set) = 2
    /\ Len(selected_lines) = 1 /\ Len(markers) = 4

----------------------------------------------------------------------------
\* the sensitivity the clicks of the model are made with
ClickSensitivity == CHOOSE s \in Sensitivities : TRUE

\* the markers of the active line, as references
ActiveLeft == <<0, active_line.left_marker>>
ActiveRight == <<0, active_line.right_marker>>

\* a click at ms is within the sensitivity of a marker of the active line
ClickNear(ms) ==
    \/ tabs(PositionNow(ActiveLeft) - ms) <= ClickSensitivity
    \/ tabs(PositionNow(ActiveRight) - ms) <= ClickSensitivity

\* the marker OnLeftClick is to pick: the closer one, the left one on a tie
ClickChosen(ms) ==
    IF tabs(PositionNow(ActiveLeft) - ms) <= tabs(PositionNow(ActiveRight) - ms)
    THEN ActiveLeft ELSE ActiveRight

\* C31: a left click without Alt within the sensitivity of a marker of the
\* active line resets clicked_ms to INT_MIN and returns exactly the closer of
\* the two markers, the left one on a tie; a chosen left marker is moved to
\* ms by SetMarkers, snap included, and a chosen right marker is not moved.
C31_ClickPicksCloser ==
    [][(nops' # nops /\ op'.name = "OnLeftClick" /\ ClickNear(op'.ms)) =>
        /\ clicked_ms' = INT_MIN
        /\ op'.upd = <<ClickChosen(op'.ms)>>
        /\ dragged' = op'.upd
        /\ \A m \in MarkerRefs : Held(AllMarkers(Cur), m) =>
            IF m = ActiveLeft /\ ClickChosen(op'.ms) = ActiveLeft
            THEN PositionNow(m)' = op'.ms + snapped'
            ELSE PositionNow(m)' = PositionNow(m)
        /\ IF ClickChosen(op'.ms) = ActiveLeft
           THEN /\ tabs(snapped') <= op'.snap_range
                /\ LiveRef(0) \in modified_lines' \/ (auto_commit /\ commits' # <<>>)
           ELSE /\ notified' = <<>> /\ commits' = <<>>
                /\ modified_lines' = modified_lines /\ events' = events]_vars

\* C31 witness: a click at 1000 has picked the left marker of the active
\* line and SetMarkers has put it at 1000 plus a snap that is not 0.
C31_Witness ==
    /\ op.name = "OnLeftClick" /\ op.ms = 1000 /\ clicked_ms = INT_MIN
    /\ Len(op.upd) = 1 /\ snapped # 0
    /\ PositionNow(op.upd[1]) = 1000 + snapped

\* the subtitle lines whose half-open time range [Start, End) contains ms
LinesContaining(ms) ==
    {l \in 1..Len(events) : Contains(TimeRange(events[l].Start, events[l].End), ms)}

\* what a far click is to do when the lines of hit are those under the click
FarClickSelects(hit) ==
    /\ op'.upd = <<>> /\ dragged' = <<>>
    /\ commits' = <<>> /\ events' = events
    /\ IF hit = {}
       THEN /\ sel_active' = sel_active /\ sel_set' = sel_set
            /\ active_line' = active_line /\ selected_lines' = selected_lines
            /\ markers' = markers /\ modified_lines' = modified_lines
       ELSE LET first == CHOOSE l \in hit : \A k \in hit : l <= k
            IN sel_active' = first /\ sel_set' = {first}

\* C32: a left click without Alt farther than the sensitivity from both
\* markers of the active line returns no marker and moves none; the first
\* line of the document whose time range contains ms becomes the active line
\* and the only selected line, and nothing is selected anew when no line
\* contains ms.
C32_FarClickSelects ==
    [][(nops' # nops /\ op'.name = "OnLeftClick" /\ ~ClickNear(op'.ms)) =>
        FarClickSelects(LinesContaining(op'.ms))]_vars

\* the pointer times and sensitivities IsNearbyMarker is asked about
NearbyTimes == {950, 1000, 1050, 1150}
NearbySensitivities == {0, 50}

\* C33: IsNearbyMarker is true whenever Alt is held; without Alt it is true
\* exactly when a marker of the active line lies between ms - sensitivity and
\* ms + sensitivity, both included; the markers of the companions do not
\* count.
C33_NearbyMarker ==
    \A ms \in NearbyTimes, sensitivity \in NearbySensitivities :
        /\ IsNearbyMarker(Cur, ms, sensitivity, TRUE)
        /\ IsNearbyMarker(Cur, ms, sensitivity, FALSE) <=>
            \E m \in {ActiveLeft, ActiveRight} :
                /\ ms - sensitivity <= PositionNow(m)
                /\ PositionNow(m) <= ms + sensitivity

\* C33 as the code has it: without Alt, IsNearbyMarker is true exactly when
\* a marker of the active line lies in the half-open range from
\* ms - sensitivity up to, not including, ms + sensitivity.
C33_NearbyMarkerHalfOpen ==
    \A ms \in NearbyTimes, sensitivity \in NearbySensitivities :
        /\ IsNearbyMarker(Cur, ms, sensitivity, TRUE)
        /\ IsNearbyMarker(Cur, ms, sensitivity, FALSE) <=>
            \E m \in {ActiveLeft, ActiveRight} :
                /\ ms - sensitivity <= PositionNow(m)
                /\ PositionNow(m) < ms + sensitivity

\* C33 witness: the active line starts at 1000 and a companion at 1100; the
\* pointer at 1000 with sensitivity 50 is near, at 950 (the marker is at
\* ms + sensitivity) and at 1150 (only the companion is in range) it is not.
C33_Witness ==
    /\ PositionNow(ActiveLeft) = 1000
    /\ Len(selected_lines) = 1 /\ PositionNow(<<1, 1>>) = 1100
    /\ IsNearbyMarker(Cur, 1000, 50, FALSE)
    /\ ~IsNearbyMarker(Cur, 950, 50, FALSE)
    /\ ~IsNearbyMarker(Cur, 1150, 50, FALSE)
    /\ IsNearbyMarker(Cur, 1150, 50, TRUE)

\* the ranges GetMarkers is asked for
MarkerQueryRanges == {TimeRange(0, 3000), TimeRange(1000, 2000), TimeRange(1050, 1950)}

\* the tracked markers at the head of a vector GetMarkers filled
TrackedPart(out) == SelectSeq(out, LAMBDA x : x.line >= 0)

\* out is the tracked markers followed by the keyframe markers
TrackedThenKeyframes(out) ==
    \A i, j \in 1..Len(out) : (out[i].line >= 0 /\ out[j].line < 0) => i < j

\* out holds exactly the tracked markers whose position lies in range, once
TrackedInRange(out, range) ==
    /\ \A m \in SeqRange(AllMarkers(Cur)) :
        Cardinality({i \in 1..Len(out) : out[i].line = m[1] /\ out[i].marker = m[2]})
        = IF Contains(range, PositionNow(m)) THEN 1 ELSE 0
    /\ \A i \in 1..Len(out) : out[i].line >= 0 => out[i].position = PositionNow(<<out[i].line, out[i].marker>>)

\* the tracked markers of out are in non-decreasing position order
TrackedAscending(out) ==
    \A i, j \in 1..Len(TrackedPart(out)) :
        i < j => TrackedPart(out)[i].position <= TrackedPart(out)[j].position

\* at one position the markers of the active line come after the others
ActiveLastOnTies(out) ==
    \A i, j \in 1..Len(TrackedPart(out)) :
        (/\ TrackedPart(out)[i].position = TrackedPart(out)[j].position
         /\ TrackedPart(out)[i].line = 0 /\ TrackedPart(out)[j].line > 0) => j < i

\* the keyframes of out are keyframes, and every keyframe in range is there
KeyframesInRange(out, range) ==
    /\ \A i \in 1..Len(out) : out[i].line < 0 => out[i].position \in keyframes
    /\ \A k \in keyframes : Contains(range, k) =>
        \E i \in 1..Len(out) : out[i].line < 0 /\ out[i].position = k

\* C34: GetMarkers(range) gives every tracked marker whose position lies in
\* range, in non-decreasing position order, then the keyframes in range;
\* tracked markers at one position have those of the active line last.
C34_GetMarkers ==
    \A range \in MarkerQueryRanges : \A out \in GetMarkers(Cur, range) :
        /\ TrackedThenKeyframes(out)
        /\ TrackedInRange(out, range)
        /\ TrackedAscending(out)
        /\ ActiveLastOnTies(out)
        /\ KeyframesInRange(out, range)

\* a TimeableLine is at the times the document has for its line
AtDocumentTimes(t, ev) ==
    /\ GetLeftMarker(t).position = ev[t.line].Start
    /\ GetRightMarker(t).position = ev[t.line].End

\* the companions are the selected lines other than the active one, each at
\* the document's times
CompanionsRebuilt(sl, ev) ==
    /\ {sl[i].line : i \in 1..Len(sl)} = sel_set \ {sel_active}
    /\ Len(sl) = Cardinality(sel_set \ {sel_active})
    /\ \A i \in 1..Len(sl) : AtDocumentTimes(sl[i], ev)

\* the controller reverted: no commit to chain to, no modified line, the
\* active line at the document's times
RevertedTo(ev) ==
    /\ commit_id' = -1
    /\ modified_lines' = {}
    /\ sel_active # NoLine => active_line'.line = sel_active /\ AtDocumentTimes(active_line', ev)

\* the fields of the controller other than the companions and the index
ControllerRest == <<active_line, modified_lines, commit_id, clicked_ms, sel_active, sel_set>>

\* C35: after an external commit that touched dialogue times the controller
\* has reverted (commit_id = -1, modified_lines empty, active markers at the
\* document's times); after one that only added or removed lines the
\* companions are rebuilt and nothing else changes; after any other commit
\* the controller is as it was.
C35_ExternalCommit ==
    [][/\ (nops' # nops /\ op'.name = "ExternalCommitTime") => RevertedTo(events')
       /\ (nops' # nops /\ op'.name = "ExternalCommitAddRem") =>
            /\ CompanionsRebuilt(selected_lines', events')
            /\ ControllerRest' = ControllerRest
       /\ (nops' # nops /\ op'.name = "ExternalCommitText") =>
            /\ ControllerRest' = ControllerRest
            /\ selected_lines' = selected_lines /\ markers' = markers]_vars

----------------------------------------------------------------------------
(* Loss of the mouse capture during a drag *)

\* the display is in a drag and the window system has taken the capture away
DragWithoutCapture ==
    display.state \in {DRAGGING_TIMELINE, DRAGGING_AUDIO_MARKER} /\ ~display.has_capture

\* the step left the drag for the idle state with the default cursor and did
\* not apply the event to the drag: the timing controller was not asked to
\* move a marker, the view and the scroll timer are as they were, and the
\* track cursor is only what the idle state makes of the event
DragAbandoned ==
    /\ display'.state = DRAGGING_IDLE
    /\ display'.cursor = "default"
    /\ ~display'.has_capture
    /\ ~display'.marker_dragged
    /\ display'.scroll_left = display.scroll_left
    /\ display'.scroll_timer = display.scroll_timer
    /\ display'.audio_marker = display.audio_marker
    /\ ~op'.event.middle_is_down =>
           display'.track_cursor_pos \in {-1, display.track_cursor_pos}

\* C36 as stated: when the capture was lost during a timeline or marker
\* drag, the next pointer event, whichever it is, ends the drag: idle state,
\* default cursor, no further drag applied, nothing of the timing
\* controller touched.
C36_CaptureLossEndsDrag ==
    [][(DragWithoutCapture /\ nops' # nops /\ op'.name = "OnMouseEvent")
           => DragAbandoned /\ UNCHANGED ViewRest]_vars

\* C36, amended: the same for the next pointer event the display handles,
\* which is every event but a move outside the client rectangle (that one
\* is passed on and leaves the state as it is).
C36_CaptureLossEndsDragWhenHandled ==
    [][(DragWithoutCapture /\ nops' # nops /\ op'.name = "OnMouseEvent"
            /\ op'.handled)
           => DragAbandoned /\ UNCHANGED ViewRest]_vars

\* a marker drag lost the capture, and the drag event that came next was not
\* applied: the display is idle with the default cursor
C36_Witness ==
    /\ op.name = "OnMouseEvent" /\ op.handled
    /\ op.event.type = "Dragging"
    /\ op.was.state = DRAGGING_AUDIO_MARKER /\ ~op.was.has_capture
    /\ display.state = DRAGGING_IDLE /\ display.cursor = "default"
    /\ ~display.marker_dragged

----------------------------------------------------------------------------
(* The scroll timer of a marker drag *)

\* the step armed the scroll timer
TimerArmed == ~display.scroll_timer /\ display'.scroll_timer

\* the scroll timer fired in this step
TimerFired == nops' # nops /\ op'.name = "OnScrollTimer"

\* where the dragged marker was, relative to the view, when the timer fired
FiredRelX == RelativeXFromTime(display, op'.marker_ms)

\* the view after scrolling by amount
ScrolledBy(amount) == ScrollPixelToLeft(display, display.scroll_left + amount).scroll_left

\* the timer scrolls the marker back into view with a margin of a twentieth
\* of the client width
TimerScrollAmounts ==
    TimerFired =>
        display'.scroll_left =
            IF FiredRelX < 0
            THEN ScrolledBy(FiredRelX - display.client_width \div 20)
            ELSE IF FiredRelX >= display.client_width
            THEN ScrolledBy(FiredRelX - display.client_width
                                + display.client_width \div 20)
            ELSE display.scroll_left

\* C37: the scroll timer is armed only during a marker drag, when it fires
\* it scrolls by rel_x - width/20 (marker left of the view) or by
\* rel_x - width + width/20 (marker right of it), and it never scrolls while
\* the display is idle.
C37_ScrollTimer ==
    [][/\ TimerArmed => display.state = DRAGGING_AUDIO_MARKER
       /\ TimerScrollAmounts
       /\ (TimerFired /\ display.state = DRAGGING_IDLE)
              => display'.scroll_left = display.scroll_left]_vars

----------------------------------------------------------------------------
(* Auto-scroll on a change of the primary range *)

\* the timing controller announced a primary range that does not end at 0
\* to an idle display with Audio/Auto/Scroll on
RangeAnnouncedWhenIdle ==
    /\ nops' # nops /\ op'.name = "OnSelectionChanged"
    /\ display.opt.auto_scroll
    /\ display.state = DRAGGING_IDLE
    /\ op'.sel.end # 0

\* C38: with Audio/Auto/Scroll on and the display idle, every update of the
\* primary range whose end is not 0 scrolls the range into view with
\* ScrollTimeRangeInView, also after a marker drag has been completed or
\* cancelled before.
C38_AutoScrollWhenIdle ==
    [][RangeAnnouncedWhenIdle
           => display' = ScrollTimeRangeInView(display, op'.sel)]_vars

----------------------------------------------------------------------------
(* Scrolling a time range into view *)

\* the inner window of a display: a twentieth of the client width off its
\* left edge, nine tenths of the client width wide
InnerMargin(d) == d.client_width \div 20
InnerLeft(d) == d.scroll_left + InnerMargin(d)
InnerWidth(d) == (9 * d.client_width) \div 10

\* which of the five ordered cases a range is for a display
ScrollCase(d, range) ==
    LET range_begin == AbsoluteXFromTime(d, range.begin)
        range_end == AbsoluteXFromTime(d, range.end)
    IN IF range_begin >= InnerLeft(d) /\ range_end <= InnerLeft(d) + InnerWidth(d)
       THEN 1
       ELSE IF range_end - range_begin < InnerWidth(d)
       THEN 2
       ELSE IF range_begin < InnerLeft(d) /\ InnerLeft(d) + InnerWidth(d) < range_end
       THEN 3
       ELSE IF /\ InnerLeft(d) <= range_end
               /\ range_end < InnerLeft(d) + InnerWidth(d)
               /\ range_begin < InnerLeft(d)
       THEN 4
       ELSE 5

\* the pixel the case asks to scroll to
ScrollTarget(d, range) ==
    LET range_begin == AbsoluteXFromTime(d, range.begin)
        range_end == AbsoluteXFromTime(d, range.end)
        k == ScrollCase(d, range)
    IN IF k = 2
       THEN range_begin - (InnerWidth(d) - (range_end - range_begin)) \div 2
                - InnerMargin(d)
       ELSE IF k = 4 THEN range_end - InnerWidth(d) - InnerMargin(d)
       ELSE range_begin - InnerMargin(d)

\* a range update reached ScrollTimeRangeInView: auto-scroll is on, the range
\* does not end at 0 and no drag object stands in the way
ScrolledIntoView ==
    /\ nops' # nops /\ op'.name = "OnSelectionChanged"
    /\ display.opt.auto_scroll /\ display.audio_marker = "none"
    /\ op'.sel.end # 0

\* C39: ScrollTimeRangeInView takes the first of five cases that applies:
\* the range is inside the inner window - no scroll; it is shorter than the
\* inner window - centred; the inner window is strictly inside the range -
\* no scroll; its right edge is in the inner window and its left edge is
\* left of it - right-aligned; otherwise left-aligned.  In the first and the
\* third case scroll_left is unchanged, and nothing else of the display
\* changes in any case.
C39_FiveCases ==
    [][ScrolledIntoView =>
          /\ display' =
                IF ScrollCase(display, op'.sel) \in {1, 3}
                THEN display
                ELSE ScrollPixelToLeft(display, ScrollTarget(display, op'.sel))
          /\ ScrollCase(display, op'.sel) \in {1, 3}
                 => display'.scroll_left = display.scroll_left]_vars

\* a range update found the right edge of a long range in the inner window,
\* and the view moved to align the range at the right
C39_Witness ==
    /\ op.name = "OnSelectionChanged"
    /\ op.was.opt.auto_scroll /\ op.was.audio_marker = "none" /\ op.sel.end # 0
    /\ ScrollCase(op.was, op.sel) = 4
    /\ display.scroll_left # op.was.scroll_left
    /\ display.scroll_left =
           AbsoluteXFromTime(op.was, op.sel.end) - InnerWidth(op.was)
               - InnerMargin(op.was)

\* C40: ScrollTimeRangeInView is idempotent: called again with the same
\* range, zoom and client width unchanged, it leaves scroll_left where the
\* first call put it.
C40_ScrollIdempotent ==
    [][(/\ nops' # nops /\ op'.name = "ScrollTimeRangeInView"
        /\ op.name = "ScrollTimeRangeInView" /\ op.range = op'.range)
           => display'.scroll_left = display.scroll_left]_vars

====
